---- MODULE Spec2Model ----
(***************************************************************************)
(* Model of the loker secrets manager: the secret / version / stage state  *)
(* machine of src/handlers over the relational store of                    *)
(* src/database/secrets.rs.                                                *)
(*                                                                         *)
(* The store is four tables (secrets, versions, stages, tags).  Every      *)
(* handler is a pure operator from (store, clock, request) to              *)
(* (store, response); the action of a handler applies it atomically, as    *)
(* one request served alone.  A handler that returns an error inside its   *)
(* transaction returns the store it started from (rollback).  The writers  *)
(* are also run as concurrent calls, each split where the handler reads    *)
(* the secret before it opens its transaction.                             *)
(***************************************************************************)
EXTENDS Integers, Sequences, FiniteSets, TLC

VARIABLES
    secrets,    \* rows of table secrets
    versions,   \* rows of table secrets_versions
    stages,     \* rows of table secret_version_stages
    tags,       \* rows of table secrets_tags
    now,        \* the server clock, in days
    resp,       \* the response of the last request served
    inflight    \* the calls in progress: per worker, the call and how far it is

vars == <<secrets, versions, stages, tags, now, resp, inflight>>

----------------------------------------------------------------------------
(* Values *)

\* Option::None of a string-typed field
Null == "NULL"
\* Option::None of a date-typed field
NoDate == -1
\* The absent row of an Option<StoredSecret>
NoRow == [arn |-> Null]

AWSCURRENT == "AWSCURRENT"
AWSPREVIOUS == "AWSPREVIOUS"

\* Error kinds of handlers/error.rs; Ok is the success response
Ok == "Ok"
InvalidRequestException == "InvalidRequestException"
ResourceNotFoundException == "ResourceNotFoundException"
ResourceExistsException == "ResourceExistsException"
InternalServiceError == "InternalServiceError"

----------------------------------------------------------------------------
(* The store *)

\* arn:aws:secretsmanager:us-east-1:1:secret:{name}-{random_suffix}
create_secret_arn(name, suffix) ==
    CASE name = "n1" /\ suffix = "Ab3dE9" -> "arn:aws:secretsmanager:us-east-1:1:secret:n1-Ab3dE9"
      [] name = "n1" /\ suffix = "x7Qp0Z" -> "arn:aws:secretsmanager:us-east-1:1:secret:n1-x7Qp0Z"
      [] name = "n2" /\ suffix = "Ab3dE9" -> "arn:aws:secretsmanager:us-east-1:1:secret:n2-Ab3dE9"

DB == [secrets |-> secrets, versions |-> versions, stages |-> stages, tags |-> tags]

\* WHERE "name" = ? OR "arn" = ?
MatchesId(secret, secret_id) == secret.name = secret_id \/ secret.arn = secret_id

\* The stage labels attached to a version
VersionStages(db, arn, version_id) ==
    { st.value : st \in { x \in db.stages : x.secret_arn = arn /\ x.version_id = version_id } }

\* A StoredSecret: the secret row joined with one of its versions
StoredSecret(db, secret, version) ==
    [ arn |-> secret.arn, name |-> secret.name, description |-> secret.description,
      updated_at |-> secret.updated_at, scheduled_delete_at |-> secret.scheduled_delete_at,
      version_id |-> version.version_id,
      secret_string |-> version.secret_string, secret_binary |-> version.secret_binary,
      version_stages |-> VersionStages(db, secret.arn, version.version_id) ]

\* The joined rows of the secrets matching secret_id, one for each version
JoinedRows(db, secret_id) ==
    { StoredSecret(db, p[1], p[2]) :
        p \in { q \in db.secrets \X db.versions :
                    MatchesId(q[1], secret_id) /\ q[2].secret_arn = q[1].arn } }

OneOrNoRow(rows) == IF rows = {} THEN NoRow ELSE CHOOSE r \in rows : TRUE

\* The version of the secret that holds AWSCURRENT
get_secret_latest_version(db, secret_id) ==
    OneOrNoRow({ r \in JoinedRows(db, secret_id) : AWSCURRENT \in r.version_stages })

get_secret_by_version_id(db, secret_id, version_id) ==
    OneOrNoRow({ r \in JoinedRows(db, secret_id) : r.version_id = version_id })

get_secret_by_version_stage(db, secret_id, version_stage) ==
    OneOrNoRow({ r \in JoinedRows(db, secret_id) : version_stage \in r.version_stages })

get_secret_by_version_stage_and_id(db, secret_id, version_id, version_stage) ==
    OneOrNoRow({ r \in JoinedRows(db, secret_id) :
                    r.version_id = version_id /\ version_stage \in r.version_stages })

\* INSERT INTO secrets: name and arn are unique
create_secret_violates(db, arn, name) ==
    \E s \in db.secrets : s.name = name \/ s.arn = arn

create_secret(db, arn, name, description) ==
    [db EXCEPT !.secrets = @ \cup
        {[ arn |-> arn, name |-> name, description |-> description,
           updated_at |-> NoDate, scheduled_delete_at |-> NoDate ]}]

\* INSERT INTO secrets_versions: (secret_arn, version_id) is unique
create_secret_version_violates(db, arn, version_id) ==
    \E v \in db.versions : v.secret_arn = arn /\ v.version_id = version_id

create_secret_version(db, arn, version_id, secret_string, secret_binary) ==
    [db EXCEPT !.versions = @ \cup
        {[ secret_arn |-> arn, version_id |-> version_id,
           secret_string |-> secret_string, secret_binary |-> secret_binary,
           last_accessed_at |-> NoDate ]}]

\* INSERT INTO secret_version_stages: (secret_arn, value) is unique
add_secret_version_stage_violates(db, arn, value) ==
    \E st \in db.stages : st.secret_arn = arn /\ st.value = value

\* The stage row references a version row
add_secret_version_stage_dangling(db, arn, version_id) ==
    ~ \E v \in db.versions : v.secret_arn = arn /\ v.version_id = version_id

add_secret_version_stage(db, arn, version_id, value) ==
    [db EXCEPT !.stages = @ \cup
        {[ secret_arn |-> arn, version_id |-> version_id, value |-> value ]}]

\* DELETE the stage from whichever version of the secret holds it
remove_secret_version_stage_any(db, arn, value) ==
    [db EXCEPT !.stages = { st \in @ : ~ (st.secret_arn = arn /\ st.value = value) }]

\* DELETE the stage from one version; the handler reads the rows affected
remove_secret_version_stage_rows(db, arn, version_id, value) ==
    Cardinality({ st \in db.stages :
        st.secret_arn = arn /\ st.version_id = version_id /\ st.value = value })

remove_secret_version_stage(db, arn, version_id, value) ==
    [db EXCEPT !.stages = { st \in @ :
        ~ (st.secret_arn = arn /\ st.version_id = version_id /\ st.value = value) }]

\* Upsert of a tag on (secret_arn, key)
put_secret_tag(db, clock, arn, key, value) ==
    [db EXCEPT !.tags = { t \in @ : ~ (t.secret_arn = arn /\ t.key = key) } \cup
        {[ secret_arn |-> arn, key |-> key, value |-> value, updated_at |-> clock ]}]

remove_secret_tag(db, arn, key) ==
    [db EXCEPT !.tags = { t \in @ : ~ (t.secret_arn = arn /\ t.key = key) }]

update_secret_description(db, clock, arn, description) ==
    [db EXCEPT !.secrets = { IF s.arn = arn
                             THEN [s EXCEPT !.description = description, !.updated_at = clock]
                             ELSE s : s \in @ }]

\* Stamp the day of the access on the version
update_secret_version_last_accessed(db, clock, arn, version_id) ==
    [db EXCEPT !.versions = { IF v.secret_arn = arn /\ v.version_id = version_id
                              THEN [v EXCEPT !.last_accessed_at = clock]
                              ELSE v : v \in @ }]

\* delete_secret as it would be if it removed the versions of the secret, with
\* their stages, and kept the secret
delete_secret_keeping_row(db, arn) ==
    [db EXCEPT !.versions = { v \in @ : v.secret_arn # arn },
               !.stages = { st \in @ : st.secret_arn # arn }]

\* Hard delete, cascading to the versions, stages and tags of the secret
delete_secret(db, arn) ==
    [ secrets  |-> { s \in db.secrets : s.arn # arn },
      versions |-> { v \in db.versions : v.secret_arn # arn },
      stages   |-> { st \in db.stages : st.secret_arn # arn },
      tags     |-> { t \in db.tags : t.secret_arn # arn } ]

schedule_delete_secret(db, clock, arn, days) ==
    [db EXCEPT !.secrets = { IF s.arn = arn
                             THEN [s EXCEPT !.scheduled_delete_at = clock + days]
                             ELSE s : s \in @ }]

cancel_delete_secret(db, arn) ==
    [db EXCEPT !.secrets = { IF s.arn = arn
                             THEN [s EXCEPT !.scheduled_delete_at = NoDate]
                             ELSE s : s \in @ }]

\* get_scheduled_secrets as it would be if it took every scheduled secret,
\* elapsed or not
get_scheduled_secrets_any(db, clock) ==
    { s.arn : s \in { x \in db.secrets : x.scheduled_delete_at # NoDate } }

\* The secrets whose scheduled deletion has elapsed
get_scheduled_secrets(db, clock) ==
    { s.arn : s \in { x \in db.secrets :
                        x.scheduled_delete_at # NoDate /\ x.scheduled_delete_at <= clock } }

\* Hard delete of each of the secrets, one after the other
RECURSIVE delete_secrets(_, _)
delete_secrets(db, arns) ==
    IF arns = {} THEN db
    ELSE LET arn == CHOOSE a \in arns : TRUE
         IN  delete_secrets(delete_secret(db, arn), arns \ {arn})

\* A pass of the Reaper
perform_background_tasks(db, clock) ==
    delete_secrets(db, get_scheduled_secrets(db, clock))

----------------------------------------------------------------------------
(* Responses *)

\* The response of a handler.  path names the branch of the handler that
\* produced it; the other fields are the fields of the wire response.
Response(op, path, err, arn, version_id, version_stages, payload, date) ==
    [ op |-> op, path |-> path, err |-> err, arn |-> arn,
      version_id |-> version_id, version_stages |-> version_stages,
      secret_string |-> payload[1], secret_binary |-> payload[2],
      deletion_date |-> date, version_ids_to_stages |-> {}, tags |-> {},
      secret_list |-> <<>>, secret_values |-> <<>>, errors |-> <<>>, next_token |-> <<>>,
      random_password |-> <<>>, versions |-> <<>> ]

NoPayload == <<Null, Null>>

Failure(op, path, err) == Response(op, path, err, Null, Null, {}, NoPayload, NoDate)

\* A handler's result: the store it leaves and the response it returns
Result(db, response) == [db |-> db, resp |-> response]

\* transaction as it would be if it committed whatever the action returned
transaction_commits_on_err(db, r) == r

\* database::transaction: commit when the action returns Ok, roll back to the
\* store the transaction began with when it returns Err
transaction(db, r) == IF r.resp.err = Ok THEN r ELSE Result(db, r.resp)

\* Elements of a sequence
Range(seq) == { seq[i] : i \in 1..Len(seq) }

----------------------------------------------------------------------------
(* CreateSecret *)

\* "Must only specify one of the two", "Must specify at least one"
create_payload_rejected(secret_string, secret_binary) ==
    \/ secret_string # Null /\ secret_binary # Null
    \/ secret_string = Null /\ secret_binary = Null

\* create_existing_version as it would be if it looked the version up by the
\* ARN generated for this request
create_existing_version_by_new_arn(db, name, arn, version_id) ==
    get_secret_by_version_id(db, arn, version_id)

\* "Check if the secret has been created": the version of the named secret
\* that the token names
create_existing_version(db, name, arn, version_id) ==
    get_secret_by_version_id(db, name, version_id)

RECURSIVE PutTags(_, _, _, _)
PutTags(db, clock, arn, tagList) ==
    IF tagList = <<>> THEN db
    ELSE PutTags(put_secret_tag(db, clock, arn, Head(tagList).key, Head(tagList).value),
                 clock, arn, Tail(tagList))

CreateSecretHandler(db, clock, name, suffix, version_id, description, secret_string, secret_binary, tagList) ==
    LET op == "CreateSecret"
        arn == create_secret_arn(name, suffix)
    IN
    IF create_payload_rejected(secret_string, secret_binary)
    THEN Result(db, Failure(op, "payload_rejected", InvalidRequestException))
    ELSE transaction(db,
    IF create_secret_violates(db, arn, name)
    THEN
        LET secret == create_existing_version(db, name, arn, version_id) IN
        IF secret = NoRow
        THEN Result(db, Failure(op, "name_taken", ResourceExistsException))
        ELSE IF secret.secret_string # secret_string \/ secret.secret_binary # secret_binary
        THEN Result(db, Failure(op, "payload_differs", ResourceExistsException))
        ELSE Result(db, Response(op, "replay", Ok, secret.arn, version_id, {}, NoPayload, NoDate))
    ELSE
        LET db1 == create_secret(db, arn, name, description) IN
        IF create_secret_version_violates(db1, arn, version_id)
        THEN
            LET secret == get_secret_by_version_id(db1, arn, version_id) IN
            IF secret = NoRow
            THEN Result(db1, Failure(op, "version_lost", InternalServiceError))
            ELSE IF secret.secret_string # secret_string \/ secret.secret_binary # secret_binary
            THEN Result(db1, Failure(op, "version_differs", ResourceExistsException))
            ELSE Result(db1, Response(op, "version_replay", Ok, arn, version_id, {}, NoPayload, NoDate))
        ELSE
            LET db2 == create_secret_version(db1, arn, version_id, secret_string, secret_binary) IN
            IF \/ add_secret_version_stage_violates(db2, arn, AWSCURRENT)
               \/ add_secret_version_stage_dangling(db2, arn, version_id)
            THEN Result(db2, Failure(op, "stage_failed", InternalServiceError))
            ELSE
                LET db3 == add_secret_version_stage(db2, arn, version_id, AWSCURRENT)
                    db4 == PutTags(db3, clock, arn, tagList)
                IN  Result(db4, Response(op, "created", Ok, arn, version_id, {}, NoPayload, NoDate)))

----------------------------------------------------------------------------
(* PutSecretValue *)

\* PutStages as it would be if the old current version were not given AWSPREVIOUS
RECURSIVE PutStages_without_previous(_, _, _, _, _)
PutStages_without_previous(db, arn, old_version_id, version_id, stage_list) ==
    IF stage_list = <<>> THEN [db |-> db, err |-> Ok]
    ELSE
        LET version_stage == Head(stage_list)
            db1 == remove_secret_version_stage_any(db, arn, version_stage)
        IN  PutStages_without_previous(
                add_secret_version_stage(db1, arn, version_id, version_stage),
                arn, old_version_id, version_id, Tail(stage_list))

\* The loop over the requested stages (put_secret_value.rs, "Add the requested stages")
RECURSIVE PutStages(_, _, _, _, _)
PutStages(db, arn, old_version_id, version_id, stage_list) ==
    IF stage_list = <<>> THEN [db |-> db, err |-> Ok]
    ELSE
        LET version_stage == Head(stage_list)
            db1 == remove_secret_version_stage_any(db, arn, version_stage)
            \* re-assigning AWSCURRENT: the previous secret is given AWSPREVIOUS
            promote == version_stage = AWSCURRENT
            db2 == IF promote THEN remove_secret_version_stage_any(db1, arn, AWSPREVIOUS) ELSE db1
            prev_fails == /\ promote
                          /\ \/ add_secret_version_stage_violates(db2, arn, AWSPREVIOUS)
                             \/ add_secret_version_stage_dangling(db2, arn, old_version_id)
            db3 == IF promote
                   THEN add_secret_version_stage(db2, arn, old_version_id, AWSPREVIOUS)
                   ELSE db2
            add_fails == \/ add_secret_version_stage_violates(db3, arn, version_stage)
                         \/ add_secret_version_stage_dangling(db3, arn, version_id)
        IN  IF prev_fails
            THEN [db |-> db2, err |-> InternalServiceError]
            ELSE IF add_fails
            THEN [db |-> db3, err |-> InternalServiceError]
            ELSE PutStages(add_secret_version_stage(db3, arn, version_id, version_stage),
                           arn, old_version_id, version_id, Tail(stage_list))

\* put_payload_rejected as it would be without "Must specify at least one"
put_payload_rejected_only_both(secret_string, secret_binary) ==
    secret_string # Null /\ secret_binary # Null

\* "Must only specify one of the two", "Must specify at least one"
put_payload_rejected(secret_string, secret_binary) ==
    \/ secret_string # Null /\ secret_binary # Null
    \/ secret_string = Null /\ secret_binary = Null

\* None => vec!["AWSCURRENT"]
put_version_stages(stage_opt) == IF stage_opt = <<>> THEN <<AWSCURRENT>> ELSE stage_opt[1]

\* The handler from db.begin() on: secret is the row read before it, db the
\* store the transaction runs on
PutSecretValueWrite(db, secret, version_id, secret_string, secret_binary, version_stages) ==
    LET op == "PutSecretValue" IN
    IF create_secret_version_violates(db, secret.arn, version_id)
    THEN
        \* rollback, then look the version up again
        LET existing == get_secret_by_version_id(db, secret.arn, version_id) IN
        IF existing = NoRow
        THEN Result(db, Failure(op, "version_lost", InternalServiceError))
        ELSE IF existing.secret_string # secret_string \/ existing.secret_binary # secret_binary
        THEN Result(db, Failure(op, "payload_differs", ResourceExistsException))
        ELSE Result(db, Response(op, "replay", Ok, existing.arn, existing.version_id,
                                 existing.version_stages, NoPayload, NoDate))
    ELSE
        LET db1 == create_secret_version(db, secret.arn, version_id, secret_string, secret_binary)
            r == PutStages(db1, secret.arn, secret.version_id, version_id, version_stages)
        IN  \* an early return drops the transaction, which rolls it back
            IF r.err # Ok
            THEN Result(db, Failure(op, "stage_failed", InternalServiceError))
            ELSE Result(r.db, Response(op, "created", Ok, secret.arn, version_id,
                                       Range(version_stages), NoPayload, NoDate))

\* Whether the handler returns before it opens its transaction
put_returns_early(secret, secret_string, secret_binary, stage_opt) ==
    \/ stage_opt # <<>> /\ stage_opt[1] = <<>>
    \/ put_payload_rejected(secret_string, secret_binary)
    \/ secret = NoRow

PutSecretValueHandler(db, secret_id, version_id, secret_string, secret_binary, stage_opt) ==
    LET op == "PutSecretValue"
        version_stages == put_version_stages(stage_opt)
        secret == get_secret_latest_version(db, secret_id)
    IN
    \* When specifying version stages must specify at least one
    IF stage_opt # <<>> /\ stage_opt[1] = <<>>
    THEN Result(db, Failure(op, "empty_stages", InvalidRequestException))
    ELSE IF put_payload_rejected(secret_string, secret_binary)
    THEN Result(db, Failure(op, "payload_rejected", InvalidRequestException))
    ELSE IF secret = NoRow
    THEN Result(db, Failure(op, "not_found", ResourceNotFoundException))
    ELSE PutSecretValueWrite(db, secret, version_id, secret_string, secret_binary,
                             version_stages)

----------------------------------------------------------------------------
(* UpdateSecret *)

\* UpdateRotate as it would be if the old current version were not given AWSPREVIOUS
UpdateRotate_without_previous(db, arn, old_version_id, version_id) ==
    LET db1 == remove_secret_version_stage_any(db, arn, AWSPREVIOUS)
        db3 == remove_secret_version_stage(db1, arn, old_version_id, AWSCURRENT)
    IN  IF \/ add_secret_version_stage_violates(db3, arn, AWSCURRENT)
           \/ add_secret_version_stage_dangling(db3, arn, version_id)
        THEN [db |-> db3, err |-> InternalServiceError]
        ELSE [db |-> add_secret_version_stage(db3, arn, version_id, AWSCURRENT), err |-> Ok]

\* The rotation of update_secret.rs after the new version is inserted
UpdateRotate(db, arn, old_version_id, version_id) ==
    LET db1 == remove_secret_version_stage_any(db, arn, AWSPREVIOUS)
        prev_fails == \/ add_secret_version_stage_violates(db1, arn, AWSPREVIOUS)
                      \/ add_secret_version_stage_dangling(db1, arn, old_version_id)
        db2 == add_secret_version_stage(db1, arn, old_version_id, AWSPREVIOUS)
        db3 == remove_secret_version_stage(db2, arn, old_version_id, AWSCURRENT)
        cur_fails == \/ add_secret_version_stage_violates(db3, arn, AWSCURRENT)
                     \/ add_secret_version_stage_dangling(db3, arn, version_id)
    IN  IF prev_fails
        THEN [db |-> db1, err |-> InternalServiceError]
        ELSE IF cur_fails
        THEN [db |-> db3, err |-> InternalServiceError]
        ELSE [db |-> add_secret_version_stage(db3, arn, version_id, AWSCURRENT), err |-> Ok]

\* "Must only specify one of the two"
update_payload_rejected(secret_string, secret_binary) ==
    secret_string # Null /\ secret_binary # Null

\* The handler's transaction: secret is the row read before it, db the store
\* the transaction runs on
UpdateSecretWrite(db, clock, secret, version_id, description, secret_string, secret_binary) ==
    LET op == "UpdateSecret" IN
    transaction(db,
        LET db1 == IF description # Null
                   THEN update_secret_description(db, clock, secret.arn, description)
                   ELSE db
        IN
        IF secret_string # Null \/ secret_binary # Null
        THEN
            IF create_secret_version_violates(db1, secret.arn, version_id)
            THEN \* Another request already created this version: Ok((secret, None)) commits
                 Result(db1, Response(op, "collision", Ok, secret.arn, Null, {}, NoPayload, NoDate))
            ELSE
                LET db2 == create_secret_version(db1, secret.arn, version_id,
                                                 secret_string, secret_binary)
                    r == UpdateRotate(db2, secret.arn, secret.version_id, version_id)
                IN  IF r.err # Ok
                    THEN Result(r.db, Failure(op, "stage_failed", InternalServiceError))
                    ELSE Result(r.db, Response(op, "rotated", Ok, secret.arn, version_id,
                                               {}, NoPayload, NoDate))
        ELSE \* Nothing to update
             Result(db1, Response(op, "described", Ok, secret.arn, Null, {}, NoPayload, NoDate)))

\* Whether the handler returns before it opens its transaction
update_returns_early(secret, secret_string, secret_binary) ==
    \/ update_payload_rejected(secret_string, secret_binary)
    \/ secret = NoRow

UpdateSecretHandler(db, clock, secret_id, version_id, description, secret_string, secret_binary) ==
    LET op == "UpdateSecret"
        secret == get_secret_latest_version(db, secret_id)
    IN
    IF update_payload_rejected(secret_string, secret_binary)
    THEN Result(db, Failure(op, "payload_rejected", InvalidRequestException))
    ELSE IF secret = NoRow
    THEN Result(db, Failure(op, "not_found", ResourceNotFoundException))
    ELSE UpdateSecretWrite(db, clock, secret, version_id, description, secret_string,
                           secret_binary)

----------------------------------------------------------------------------
(* UpdateSecretVersionStage *)

\* update_promotes as it would be if moving AWSCURRENT left AWSPREVIOUS alone
update_promotes_never(version_stage, move_to_version_id) == FALSE

\* "If we are re-assigning AWSCURRENT ensure that the previous secret is given
\* AWSPREVIOUS"
update_promotes(version_stage, move_to_version_id) ==
    version_stage = AWSCURRENT /\ move_to_version_id # Null

\* The handler's transaction: secret is the row read before it, db the store
\* the transaction runs on
UpdateSecretVersionStageWrite(db, secret, version_stage, move_to_version_id, remove_from_version_id) ==
    LET op == "UpdateSecretVersionStage" IN
    transaction(db,
    \* Secret version didn't have the stage attached
    IF /\ remove_from_version_id # Null
            /\ remove_secret_version_stage_rows(db, secret.arn, remove_from_version_id,
                                                version_stage) < 1
    THEN Result(db, Failure(op, "not_attached", InvalidRequestException))
    ELSE
        LET db1 == IF remove_from_version_id # Null
                   THEN remove_secret_version_stage(db, secret.arn, remove_from_version_id,
                                                    version_stage)
                   ELSE db
            \* re-assigning AWSCURRENT: the previous secret is given AWSPREVIOUS
            promote == update_promotes(version_stage, move_to_version_id)
            db2 == IF promote THEN remove_secret_version_stage_any(db1, secret.arn, AWSPREVIOUS)
                   ELSE db1
            prev_fails == /\ promote
                          /\ \/ add_secret_version_stage_violates(db2, secret.arn, AWSPREVIOUS)
                             \/ add_secret_version_stage_dangling(db2, secret.arn, secret.version_id)
            db3 == IF promote
                   THEN add_secret_version_stage(db2, secret.arn, secret.version_id, AWSPREVIOUS)
                   ELSE db2
            done == Response(op, "moved", Ok, secret.arn, Null, {}, NoPayload, NoDate)
        IN
        IF prev_fails
        THEN Result(db2, Failure(op, "previous_failed", InternalServiceError))
        ELSE IF move_to_version_id = Null
        THEN Result(db3, [done EXCEPT !.path = "removed"])
        \* Version stage is already attached to another version
        ELSE IF add_secret_version_stage_violates(db3, secret.arn, version_stage)
        THEN Result(db3, Failure(op, "already_attached", InvalidRequestException))
        ELSE IF add_secret_version_stage_dangling(db3, secret.arn, move_to_version_id)
        THEN Result(db3, Failure(op, "no_such_version", InternalServiceError))
        ELSE Result(add_secret_version_stage(db3, secret.arn, move_to_version_id, version_stage),
                    done))

UpdateSecretVersionStageHandler(db, secret_id, version_stage, move_to_version_id, remove_from_version_id) ==
    LET op == "UpdateSecretVersionStage"
        secret == get_secret_latest_version(db, secret_id)
    IN
    IF secret = NoRow
    THEN Result(db, Failure(op, "not_found", ResourceNotFoundException))
    ELSE UpdateSecretVersionStageWrite(db, secret, version_stage, move_to_version_id,
                                       remove_from_version_id)

----------------------------------------------------------------------------
(* DeleteSecret, RestoreSecret *)

\* DeleteSecretHandler as it would be if a forced deletion were scheduled too
DeleteSecretHandler_always_schedules(db, clock, secret_id, force_delete_without_recovery, recovery_window_in_days) ==
    LET op == "DeleteSecret"
        secret == get_secret_latest_version(db, secret_id)
    IN
    IF secret = NoRow
    THEN Result(db, Failure(op, "not_found", ResourceNotFoundException))
    ELSE IF secret.scheduled_delete_at # NoDate
    THEN Result(db, Response(op, "already_scheduled", Ok, secret.arn, Null, {}, NoPayload,
                             secret.scheduled_delete_at))
    ELSE Result(schedule_delete_secret(db, clock, secret.arn, recovery_window_in_days),
                Response(op, "scheduled", Ok, secret.arn, Null, {}, NoPayload,
                         clock + recovery_window_in_days))

DeleteSecretHandler(db, clock, secret_id, force_delete_without_recovery, recovery_window_in_days) ==
    LET op == "DeleteSecret"
        secret == get_secret_latest_version(db, secret_id)
    IN
    IF secret = NoRow
    THEN Result(db, Failure(op, "not_found", ResourceNotFoundException))
    \* Secret is already scheduled for deletion
    ELSE IF secret.scheduled_delete_at # NoDate
    THEN Result(db, Response(op, "already_scheduled", Ok, secret.arn, Null, {}, NoPayload,
                             secret.scheduled_delete_at))
    ELSE IF force_delete_without_recovery
    THEN Result(delete_secret(db, secret.arn),
                Response(op, "forced", Ok, secret.arn, Null, {}, NoPayload, clock))
    ELSE Result(schedule_delete_secret(db, clock, secret.arn, recovery_window_in_days),
                Response(op, "scheduled", Ok, secret.arn, Null, {}, NoPayload,
                         clock + recovery_window_in_days))

RestoreSecretHandler(db, secret_id) ==
    LET op == "RestoreSecret"
        secret == get_secret_latest_version(db, secret_id)
    IN
    IF secret = NoRow
    THEN Result(db, Failure(op, "not_found", ResourceNotFoundException))
    ELSE Result(cancel_delete_secret(db, secret.arn),
                Response(op, "restored", Ok, secret.arn, Null, {}, NoPayload, NoDate))

----------------------------------------------------------------------------
(* GetSecretValue, DescribeSecret *)

\* get_scheduled_rejected as it would be if the schedule were not looked at
get_scheduled_ignored(secret) == FALSE

\* "Secret is scheduled for deletion"
get_scheduled_rejected(secret) == secret.scheduled_delete_at # NoDate

\* GetSecretValueLookup as it would be if a given version id made it ignore the stage
GetSecretValueLookup_id_first(db, secret_id, version_id, version_stage) ==
    CASE version_id = Null /\ version_stage = Null ->
            get_secret_latest_version(db, secret_id)
      [] version_id # Null ->
            get_secret_by_version_id(db, secret_id, version_id)
      [] version_id = Null /\ version_stage # Null ->
            get_secret_by_version_stage(db, secret_id, version_stage)

\* The version a GetSecretValue request selects
GetSecretValueLookup(db, secret_id, version_id, version_stage) ==
    CASE version_id = Null /\ version_stage = Null ->
            get_secret_latest_version(db, secret_id)
      [] version_id # Null /\ version_stage # Null ->
            get_secret_by_version_stage_and_id(db, secret_id, version_id, version_stage)
      [] version_id # Null /\ version_stage = Null ->
            get_secret_by_version_id(db, secret_id, version_id)
      [] version_id = Null /\ version_stage # Null ->
            get_secret_by_version_stage(db, secret_id, version_stage)

GetSecretValueHandler(db, clock, secret_id, version_id, version_stage) ==
    LET op == "GetSecretValue"
        secret == GetSecretValueLookup(db, secret_id, version_id, version_stage)
    IN
    IF secret = NoRow
    THEN Result(db, Failure(op, "not_found", ResourceNotFoundException))
    ELSE IF get_scheduled_rejected(secret)
    THEN Result(db, [Failure(op, "scheduled", InvalidRequestException) EXCEPT !.arn = secret.arn])
    ELSE Result(update_secret_version_last_accessed(db, clock, secret.arn, secret.version_id),
                Response(op, "value", Ok, secret.arn, secret.version_id, secret.version_stages,
                         <<secret.secret_string, secret.secret_binary>>, NoDate))

get_secret_versions(db, arn) ==
    { <<v.version_id, VersionStages(db, arn, v.version_id)>> :
        v \in { x \in db.versions : x.secret_arn = arn } }

DescribeSecretHandler(db, secret_id) ==
    LET op == "DescribeSecret"
        secret == get_secret_latest_version(db, secret_id)
    IN
    IF secret = NoRow
    THEN Result(db, Failure(op, "not_found", ResourceNotFoundException))
    ELSE Result(db, [Response(op, "described", Ok, secret.arn, Null, {}, NoPayload,
                              secret.scheduled_delete_at)
                       EXCEPT !.version_ids_to_stages = get_secret_versions(db, secret.arn),
                              !.tags = { <<t.key, t.value>> :
                                           t \in { x \in db.tags : x.secret_arn = secret.arn } }])

----------------------------------------------------------------------------
(* TagResource, UntagResource *)

TagResourceHandler(db, clock, secret_id, tagList) ==
    LET op == "TagResource"
        secret == get_secret_latest_version(db, secret_id)
    IN
    IF secret = NoRow
    THEN Result(db, Failure(op, "not_found", ResourceNotFoundException))
    ELSE Result(PutTags(db, clock, secret.arn, tagList),
                Response(op, "tagged", Ok, Null, Null, {}, NoPayload, NoDate))

RECURSIVE RemoveTags(_, _, _)
RemoveTags(db, arn, tag_keys) ==
    IF tag_keys = <<>> THEN db
    ELSE RemoveTags(remove_secret_tag(db, arn, Head(tag_keys)), arn, Tail(tag_keys))

UntagResourceHandler(db, secret_id, tag_keys) ==
    LET op == "UntagResource"
        secret == get_secret_latest_version(db, secret_id)
    IN
    IF secret = NoRow
    THEN Result(db, Failure(op, "not_found", ResourceNotFoundException))
    ELSE transaction(db, Result(RemoveTags(db, secret.arn, tag_keys),
                Response(op, "untagged", Ok, Null, Null, {}, NoPayload, NoDate)))

----------------------------------------------------------------------------
(* AuthGate: middleware/aws_sig_v4.rs over utils/aws_sig_v4.rs, utils/date.rs *)

MissingAuthenticationToken == "MissingAuthenticationToken"
IncompleteSignature == "IncompleteSignature"
InvalidClientTokenId == "InvalidClientTokenId"
SignatureDoesNotMatch == "SignatureDoesNotMatch"
InvalidParameterException == "InvalidParameterException"
NotImplemented == "NotImplemented"
\* The answer of post_service to a method other than POST
MethodNotAllowed == "MethodNotAllowed"

\* AwsBasicError::STATUS_CODE: BAD_REQUEST unless the error overrides it
STATUS_CODE(err) ==
    CASE err = Ok -> 200
      [] err \in {InvalidClientTokenId, SignatureDoesNotMatch} -> 403
      [] err = MethodNotAllowed -> 405
      [] OTHER -> 400

\* "time_diff_now > 60 * 5"
ToleranceSeconds == 60 * 5

\* The credentials the server is configured with
credentials == [access_key_id |-> "AKID", secret_access_key |-> "SECRET"]

\* Option::None and Option::Some, as sequences of length 0 and 1
None == <<>>
Some(value) == <<value>>

\* A header value is [str |-> whether HeaderValue::to_str succeeds, v |-> the text].
\* headers.get(name)
HeaderGet(headers, name) ==
    IF name \in DOMAIN headers THEN Some(headers[name]) ELSE None

\* The text of an X-Amz-Date or Date header is [fmt |-> the format it is
\* written in, t |-> the second it names].
\* parse_amz_date: "%Y%m%dT%H%M%S" followed by 'Z'
parse_amz_date(value) ==
    IF value.fmt = "amz" THEN Some(value.t) ELSE None

\* parse_http_date: IMF-fixdate, RFC 850 or asctime
parse_http_date(value) ==
    IF value.fmt \in {"imf", "rfc850", "asctime"} THEN Some(value.t) ELSE None

\* chrono_to_system_time: "value.timestamp() as u64" wraps a negative
\* timestamp to at least 2^63 seconds, which checked_add refuses
chrono_to_system_time(t) ==
    IF t < 0 THEN None ELSE Some(t)

\* "now.timestamp().saturating_sub(date.timestamp()).abs()": both timestamps
\* are whole seconds within chrono's range, where the subtraction never saturates
time_diff(clock, date) ==
    IF clock - date < 0 THEN date - clock ELSE clock - date

\* parse_signing_scope: the first five parts of the credential split on '/'
parse_signing_scope(parts) ==
    IF Len(parts) < 5
    THEN None
    ELSE Some([ access_key_id |-> parts[1], date_yyyymmdd |-> parts[2],
                region |-> parts[3], service |-> parts[4], aws4_request |-> parts[5] ])

\* The value the key/value loop leaves for a key: the last pair with that key
LastValue(pairs, key) ==
    LET at == { i \in 1..Len(pairs) : pairs[i].key = key }
    IN  IF at = {} THEN None
        ELSE Some(pairs[CHOOSE i \in at : \A j \in at : j <= i].value)

\* The text of an Authorization header is [algorithm |-> the text before the
\* first space, rest |-> None, or Some of the ", "-separated pairs after it],
\* a pair being [key, has_value |-> whether it holds '=', value].
\* parse_auth_header
parse_auth_header(header) ==
    LET Err(e) == [ok |-> FALSE, err |-> e]
    IN
    IF header.algorithm # "AWS4-HMAC-SHA256" THEN Err("UnsupportedAlgorithm")
    ELSE IF header.rest = None THEN Err("InvalidHeader")
    ELSE
        LET pairs == header.rest[1]
            credential == LastValue(pairs, "Credential")
            signed_headers == LastValue(pairs, "SignedHeaders")
            signature == LastValue(pairs, "Signature")
        IN
        IF \E i \in 1..Len(pairs) : ~pairs[i].has_value THEN Err("InvalidKeyValue")
        ELSE IF credential = None THEN Err("MissingCredential")
        ELSE IF signed_headers = None THEN Err("MissingSignedHeaders")
        ELSE IF signature = None THEN Err("MissingSignature")
        ELSE IF parse_signing_scope(credential[1]) = None THEN Err("InvalidScope")
        ELSE [ ok |-> TRUE, err |-> "",
               signing_scope |-> parse_signing_scope(credential[1])[1],
               signed_headers |-> signed_headers[1],
               signature |-> signature[1] ]

\* sign as it would be if the body did not enter the digest
sign_without_body(method, uri, headers, body, secret_access_key, region, service, time) ==
    [ method |-> method, uri |-> uri, headers |-> headers, body |-> "",
      secret_access_key |-> secret_access_key, region |-> region,
      service |-> service, time |-> time ]

\* aws_sigv4 sign: the signature is a keyed digest of everything it is given,
\* so two signatures are equal exactly when all of these are
sign(method, uri, headers, body, secret_access_key, region, service, time) ==
    [ method |-> method, uri |-> uri, headers |-> headers, body |-> body,
      secret_access_key |-> secret_access_key, region |-> region,
      service |-> service, time |-> time ]

\* The gate's answer: the check that decided, the error, whether the request
\* was handed to the inner service
GateAnswer(path, err) == [path |-> path, err |-> err, forwarded |-> err = Ok]

\* SignedHeadersOf as it would be if every header entered the signature
SignedHeadersOf_all(headers, signed_headers) == headers

\* The request headers that SignedHeaders lists
SignedHeadersOf(headers, signed_headers) ==
    [ name \in DOMAIN headers \cap Range(signed_headers) |-> headers[name] ]

\* AwsSigV4AuthMiddleware::call without "signature != auth.signature"
signature_rejected_never(signature, supplied) == FALSE

\* "signature != auth.signature"
signature_rejected(signature, supplied) == signature # supplied

\* AwsSigV4AuthMiddleware::call without the access key check
access_key_rejected_never(access_key_id, configured) == FALSE

\* "auth.signing_scope.access_key_id != credential.access_key_id()"
access_key_rejected(access_key_id, configured) == access_key_id # configured

\* The time check as it would be with ">=" for ">"
time_rejected_at_tolerance(clock, date) == time_diff(clock, date) >= ToleranceSeconds

\* "time_diff_now > 60 * 5"
time_rejected(clock, date) == time_diff(clock, date) > ToleranceSeconds

\* The date header of a request: Some(None) when absent, None when invalid
DateHeader(headers, name) ==
    LET value == HeaderGet(headers, name)
    IN  IF value = None THEN Some(None)
        ELSE IF ~value[1].str THEN None
        ELSE IF name = "x-amz-date"
             THEN (IF parse_amz_date(value[1].v) = None THEN None
                   ELSE Some(parse_amz_date(value[1].v)))
             ELSE (IF parse_http_date(value[1].v) = None THEN None
                   ELSE Some(parse_http_date(value[1].v)))

\* AwsSigV4AuthMiddleware::call, from the signing scope on
GateVerify(req, clock, date, auth) ==
    LET signed == SignedHeadersOf(req.headers, auth.signed_headers)
        signature == sign(req.method, req.uri, signed, req.body,
                          credentials.secret_access_key, auth.signing_scope.region,
                          auth.signing_scope.service, date)
    IN
    IF auth.signing_scope.aws4_request # "aws4_request"
    THEN GateAnswer("aws4_request", IncompleteSignature)
    ELSE IF access_key_rejected(auth.signing_scope.access_key_id, credentials.access_key_id)
    THEN GateAnswer("access_key_id", InvalidClientTokenId)
    ELSE IF ~req.body_readable
    THEN GateAnswer("body", InvalidRequestException)
    ELSE IF chrono_to_system_time(date) = None
    THEN GateAnswer("system_time", InvalidRequestException)
    ELSE IF \E name \in DOMAIN signed : ~signed[name].str
    THEN GateAnswer("signed_header", InvalidRequestException)
    ELSE IF signature_rejected(signature, auth.signature)
    THEN GateAnswer("signature", SignatureDoesNotMatch)
    ELSE GateAnswer("forwarded", Ok)

\* AwsSigV4AuthMiddleware::call
AwsSigV4AuthMiddleware_call(req, clock) ==
    LET authorization == HeaderGet(req.headers, "authorization")
        amz_date == DateHeader(req.headers, "x-amz-date")
        http_date == DateHeader(req.headers, "date")
    IN
    IF authorization = None
    THEN GateAnswer("authorization_missing", MissingAuthenticationToken)
    ELSE IF ~authorization[1].str
    THEN GateAnswer("authorization", InvalidRequestException)
    ELSE IF amz_date = None
    THEN GateAnswer("amz_date", InvalidRequestException)
    ELSE IF http_date = None
    THEN GateAnswer("http_date", InvalidRequestException)
    ELSE
        \* amz_date.or(http_date)
        LET date == IF amz_date[1] # None THEN amz_date[1] ELSE http_date[1]
        IN
        IF date = None
        THEN GateAnswer("date_missing", InvalidRequestException)
        ELSE IF time_rejected(clock, date[1])
        THEN GateAnswer("time", InvalidRequestException)
        ELSE
            LET auth == parse_auth_header(authorization[1].v)
            IN  IF ~auth.ok
                THEN GateAnswer("auth_header", IncompleteSignature)
                ELSE GateVerify(req, clock, date[1], auth)

----------------------------------------------------------------------------
(* Router: handlers/mod.rs *)

\* create_handlers: the targets that have a handler
create_handlers ==
    { "secretsmanager.CreateSecret", "secretsmanager.DeleteSecret",
      "secretsmanager.DescribeSecret", "secretsmanager.GetSecretValue",
      "secretsmanager.ListSecrets", "secretsmanager.PutSecretValue",
      "secretsmanager.UpdateSecret", "secretsmanager.RestoreSecret",
      "secretsmanager.TagResource", "secretsmanager.UntagResource",
      "secretsmanager.GetRandomPassword", "secretsmanager.ListSecretVersionIds",
      "secretsmanager.UpdateSecretVersionStage", "secretsmanager.BatchGetSecretValue" }

\* A body is [json |-> whether the bytes are a JSON object, fields |-> its
\* members, trailing |-> the white space after it]; a member is
\* [type |-> "string", "number" or "bool", s, n, b |-> its value].
JsonString(s) == [type |-> "string", s |-> s, n |-> 0, b |-> FALSE]
JsonNumber(n) == [type |-> "number", s |-> "", n |-> n, b |-> FALSE]
JsonBool(b) == [type |-> "bool", s |-> "", n |-> 0, b |-> b]

\* A member is absent, or present with the type the field is declared with
FieldDecodes(fields, name, type, required) ==
    IF name \in DOMAIN fields THEN fields[name].type = type ELSE ~required

\* The value of an optional string member
OptionalString(fields, name) ==
    IF name \in DOMAIN fields THEN fields[name].s ELSE Null

\* serde_json::from_slice::<CreateSecretRequest>
decode_CreateSecretRequest(body) ==
    IF /\ body.json
       /\ FieldDecodes(body.fields, "Name", "string", TRUE)
       /\ FieldDecodes(body.fields, "Description", "string", FALSE)
       /\ FieldDecodes(body.fields, "ClientRequestToken", "string", FALSE)
       /\ FieldDecodes(body.fields, "SecretString", "string", FALSE)
       /\ FieldDecodes(body.fields, "SecretBinary", "string", FALSE)
    THEN Some([ name |-> body.fields["Name"].s,
                description |-> OptionalString(body.fields, "Description"),
                client_request_token |-> OptionalString(body.fields, "ClientRequestToken"),
                secret_string |-> OptionalString(body.fields, "SecretString"),
                secret_binary |-> OptionalString(body.fields, "SecretBinary") ])
    ELSE None

\* serde_json::from_slice::<GetSecretValueRequest>
decode_GetSecretValueRequest(body) ==
    IF /\ body.json
       /\ FieldDecodes(body.fields, "SecretId", "string", TRUE)
       /\ FieldDecodes(body.fields, "VersionId", "string", FALSE)
       /\ FieldDecodes(body.fields, "VersionStage", "string", FALSE)
    THEN Some([ secret_id |-> body.fields["SecretId"].s,
                version_id |-> OptionalString(body.fields, "VersionId"),
                version_stage |-> OptionalString(body.fields, "VersionStage") ])
    ELSE None

\* default_recovery_window_days
default_recovery_window_days == 30

\* serde_json::from_slice::<DeleteSecretRequest>
decode_DeleteSecretRequest(body) ==
    IF /\ body.json
       /\ FieldDecodes(body.fields, "SecretId", "string", TRUE)
       /\ FieldDecodes(body.fields, "ForceDeleteWithoutRecovery", "bool", FALSE)
       /\ FieldDecodes(body.fields, "RecoveryWindowInDays", "number", FALSE)
    THEN Some([ secret_id |-> body.fields["SecretId"].s,
                force_delete_without_recovery |->
                    IF "ForceDeleteWithoutRecovery" \in DOMAIN body.fields
                    THEN body.fields["ForceDeleteWithoutRecovery"].b ELSE FALSE,
                recovery_window_in_days |->
                    IF "RecoveryWindowInDays" \in DOMAIN body.fields
                    THEN body.fields["RecoveryWindowInDays"].n
                    ELSE default_recovery_window_days ])
    ELSE None

\* garde length(min, max) on an optional string
LengthWithin(value, min, max) ==
    value = Null \/ (Len(value) >= min /\ Len(value) <= max)

\* SecretId, SecretName: lengths 1 to 2048 and 1 to 512
SecretId_validate(secret_id) == LengthWithin(secret_id, 1, 2048)
SecretName_validate(name) == LengthWithin(name, 1, 512)

\* H::Request as decoded from the body, None when serde refuses it
Decode(target, body) ==
    CASE target = "secretsmanager.CreateSecret" -> decode_CreateSecretRequest(body)
      [] target = "secretsmanager.GetSecretValue" -> decode_GetSecretValueRequest(body)
      [] target = "secretsmanager.DeleteSecret" -> decode_DeleteSecretRequest(body)

\* request.validate()
Validate(target, request) ==
    CASE target = "secretsmanager.CreateSecret" ->
            /\ SecretName_validate(request.name)
            /\ LengthWithin(request.description, 0, 2048)
      [] target = "secretsmanager.GetSecretValue" ->
            /\ SecretId_validate(request.secret_id)
            /\ LengthWithin(request.version_stage, 1, 256)
      [] target = "secretsmanager.DeleteSecret" ->
            /\ SecretId_validate(request.secret_id)
            /\ request.recovery_window_in_days >= 7
            /\ request.recovery_window_in_days <= 30

\* H::handle
Handle(db, clock, target, request, suffix, generated) ==
    CASE target = "secretsmanager.CreateSecret" ->
            CreateSecretHandler(db, clock, request.name, suffix,
                IF request.client_request_token = Null THEN generated
                ELSE request.client_request_token,
                request.description, request.secret_string, request.secret_binary, <<>>)
      [] target = "secretsmanager.GetSecretValue" ->
            GetSecretValueHandler(db, clock, request.secret_id, request.version_id,
                                  request.version_stage)
      [] target = "secretsmanager.DeleteSecret" ->
            DeleteSecretHandler(db, clock, request.secret_id,
                                request.force_delete_without_recovery,
                                request.recovery_window_in_days)

\* HandlerBase::handle as it would be without "request.validate()"
validate_rejected_never(target, request) == FALSE

\* "if let Err(_error) = request.validate()"
validate_rejected(target, request) == ~Validate(target, request)

\* HandlerBase::handle
HandlerBase_handle(db, clock, target, body, suffix, generated) ==
    LET request == Decode(target, body)
    IN  IF request = None
        THEN Result(db, Failure("HandlerBase", "decode", InvalidRequestException))
        ELSE IF validate_rejected(target, request[1])
        THEN Result(db, Failure("HandlerBase", "validate", InvalidParameterException))
        ELSE Handle(db, clock, target, request[1], suffix, generated)

\* HandlerRouterService::call
HandlerRouterService_call(db, clock, req, suffix, generated) ==
    LET op == "HandlerRouterService"
        target == HeaderGet(req.headers, "x-amz-target")
    IN  IF target = None \/ (target # None /\ ~target[1].str)
        THEN Result(db, Failure(op, "target", InvalidRequestException))
        ELSE IF ~req.body_readable
        THEN Result(db, Failure(op, "body", InternalServiceError))
        ELSE IF target[1].v \notin create_handlers
        THEN Result(db, Failure(op, "handler", NotImplemented))
        ELSE HandlerBase_handle(db, clock, target[1].v, req.body, suffix, generated)

\* GateForward as it would be if only the signed headers were handed on
GateForward_signed_only(req) ==
    [req EXCEPT !.headers = [ name \in DOMAIN req.headers \cap {"host", "x-amz-date", "x-amz-target"} |->
                                req.headers[name] ]]

\* "Re-create the body since we consumed the previous one": the request the
\* gate hands to the inner service, its parts and the collected bytes
GateForward(req) ==
    [ method |-> req.method, uri |-> req.uri, headers |-> req.headers,
      body |-> req.body, body_readable |-> TRUE ]

\* The service main.rs builds: the router behind post_service behind the gate
App_call(db, clock, req, suffix, generated) ==
    LET gate == AwsSigV4AuthMiddleware_call(req, clock)
    IN  IF ~gate.forwarded
        THEN Result(db, Failure("AwsSigV4AuthMiddleware", gate.path, gate.err))
        ELSE IF GateForward(req).method # "POST"
        THEN Result(db, Failure("post_service", "method", MethodNotAllowed))
        ELSE HandlerRouterService_call(db, clock, GateForward(req), suffix, generated)

----------------------------------------------------------------------------
(* ListSecrets, BatchGetSecretValue *)

I32Max == 2147483647

\* PaginationToken of handlers/models.rs
PaginationToken(page_size, page_index) == [page_size |-> page_size, page_index |-> page_index]

\* PaginationToken::page_size: the request's MaxResults overrides the token's
page_size(token, max_results) == [token EXCEPT !.page_size = max_results]

\* PaginationToken::as_query_parts: (limit, offset), None when one exceeds i32::MAX
as_query_parts(token) ==
    IF token.page_size > I32Max \/ token.page_index > I32Max \div token.page_size
    THEN None
    ELSE Some(<<token.page_size, token.page_index * token.page_size>>)

\* PaginationToken::get_next_page
get_next_page(token, count) ==
    IF (token.page_index + 1) * token.page_size < count
    THEN Some([token EXCEPT !.page_index = @ + 1])
    ELSE None

\* A filter clause { Key, Values, Negate }
Filter(key, values, negate) == [Key |-> key, Values |-> values, Negate |-> negate]

\* value appears in text, case-sensitively: the texts of the model are the
\* names n1 and n2 and the tag texts k1 and v1
Contains(text, value) ==
    /\ text # Null
    /\ \/ value = text
       \/ value = "n" /\ text \in {"n1", "n2"}
       \/ value = "1" /\ text \in {"n1", "k1", "v1"}

\* The columns of a secret that the key of a filter names
FilterColumns(db, row, key) ==
    LET owned == { t \in db.tags : t.secret_arn = row.arn }
        keys == { t.key : t \in owned }
        values == { t.value : t \in owned }
    IN  CASE key = "name" -> {row.name}
          [] key = "description" -> {row.description}
          [] key = "tag-key" -> keys
          [] key = "tag-value" -> values
          [] key = "all" -> {row.name, row.description} \cup keys \cup values

\* One clause: any of its values appears in one of the columns; Negate inverts
FilterMatches(db, row, filter) ==
    LET hit == \E value \in Range(filter.Values), text \in FilterColumns(db, row, filter.Key) :
                    Contains(text, value)
    IN  IF filter.Negate THEN ~ hit ELSE hit

\* The clauses are AND-ed; scheduled secrets are left out unless asked for
FilterSelects(db, row, filters, include_planned_deletion) ==
    /\ \A i \in 1..Len(filters) : FilterMatches(db, row, filters[i])
    /\ include_planned_deletion \/ row.scheduled_delete_at = NoDate

\* The rows of the filter query before paging, in ascending order of created_at.
\* The store of the model carries no creation time: created_order is the order
\* in which the names were created, an input of the query.
RECURSIVE FilteredRows(_, _, _, _)
FilteredRows(db, filters, include_planned_deletion, created_order) ==
    IF created_order = <<>> THEN <<>>
    ELSE LET row == get_secret_latest_version(db, Head(created_order))
             rest == FilteredRows(db, filters, include_planned_deletion, Tail(created_order))
         IN  IF row # NoRow /\ FilterSelects(db, row, filters, include_planned_deletion)
             THEN <<row>> \o rest
             ELSE rest

Reverse(seq) == [ i \in 1..Len(seq) |-> seq[Len(seq) + 1 - i] ]

Min(a, b) == IF a < b THEN a ELSE b

\* The page (limit, offset) of the filter query, sorted by created_at
get_secrets_by_filter(db, filters, include_planned_deletion, limit, offset, asc, created_order) ==
    LET ascending == FilteredRows(db, filters, include_planned_deletion, created_order)
        rows == IF asc THEN ascending ELSE Reverse(ascending)
    IN  SubSeq(rows, offset + 1, Min(offset + limit, Len(rows)))

\* The number of rows of the filter query before paging
get_secrets_count_by_filter(db, filters, include_planned_deletion, created_order) ==
    Len(FilteredRows(db, filters, include_planned_deletion, created_order))

\* ListSecretsRequest: serde defaults of MaxResults, NextToken
list_default_max_results == 100
list_default_next_token == PaginationToken(100, 0)

SecretListEntry(db, secret) ==
    [ arn |-> secret.arn, name |-> secret.name, description |-> secret.description,
      secret_versions_to_stages |-> get_secret_versions(db, secret.arn),
      tags |-> { <<t.key, t.value>> : t \in { x \in db.tags : x.secret_arn = secret.arn } } ]

ListSecretsHandler(db, filters, include_planned_deletion, max_results, next_token, sort_order, created_order) ==
    LET op == "ListSecrets"
        asc == sort_order = "asc"
        pagination_token == page_size(next_token, max_results)
        parts == as_query_parts(pagination_token)
    IN
    IF parts = None
    THEN Result(db, Failure(op, "query_parts", InvalidRequestException))
    ELSE LET limit == parts[1][1]
             offset == parts[1][2]
             listed == get_secrets_by_filter(db, filters, include_planned_deletion,
                                             limit, offset, asc, created_order)
             count == get_secrets_count_by_filter(db, filters, include_planned_deletion,
                                                  created_order)
         IN  Result(db, [Failure(op, "listed", Ok)
                            EXCEPT !.next_token = get_next_page(pagination_token, count),
                                   !.secret_list = [ i \in 1..Len(listed) |->
                                                        SecretListEntry(db, listed[i]) ]])

\* BatchGetSecretValueRequest: defaults of MaxResults, NextToken
batch_default_max_results == 20
batch_default_next_token == PaginationToken(20, 0)

SecretValueEntry(secret) ==
    [ arn |-> secret.arn, name |-> secret.name,
      secret_string |-> secret.secret_string, secret_binary |-> secret.secret_binary,
      version_id |-> secret.version_id, version_stages |-> secret.version_stages ]

\* APIErrorType of a listed id that names no secret
APIErrorType(error_code, secret_id) == [error_code |-> error_code, secret_id |-> secret_id]

\* batch_missing_id as it would be if a listed id that names no secret were dropped
batch_missing_id_dropped(acc, secret_id) == acc

\* "errors.push(APIErrorType { .. }); continue;"
batch_missing_id(acc, secret_id) ==
    [acc EXCEPT !.errors = Append(@, APIErrorType(ResourceNotFoundException, secret_id))]

\* "for secret_id in secret_id_list": acc is the store, the values and the
\* errors after the ids before secret_id
batch_get_listed_id(acc, clock, secret_id) ==
    LET secret == get_secret_latest_version(acc.db, secret_id)
    IN  IF secret = NoRow
        THEN batch_missing_id(acc, secret_id)
        ELSE [acc EXCEPT !.db = update_secret_version_last_accessed(@, clock, secret.arn,
                                                                    secret.version_id),
                         !.secret_values = Append(@, SecretValueEntry(secret))]

RECURSIVE batch_get_list(_, _, _)
batch_get_list(acc, clock, secret_id_list) ==
    IF secret_id_list = <<>> THEN acc
    ELSE batch_get_list(batch_get_listed_id(acc, clock, Head(secret_id_list)), clock,
                        Tail(secret_id_list))

BatchGetSecretValueHandler(db, clock, filters, secret_id_list, max_results, next_token, created_order) ==
    LET op == "BatchGetSecretValue"
    IN
    CASE filters # None /\ secret_id_list = None ->
            LET pagination_token ==
                    page_size(IF next_token = None THEN batch_default_next_token ELSE next_token[1],
                              IF max_results = None THEN batch_default_max_results ELSE max_results[1])
                parts == as_query_parts(pagination_token)
            IN  IF parts = None
                THEN Result(db, Failure(op, "query_parts", InvalidRequestException))
                ELSE LET found == get_secrets_by_filter(db, filters[1], FALSE, parts[1][1],
                                                        parts[1][2], FALSE, created_order)
                         count == get_secrets_count_by_filter(db, filters[1], FALSE, created_order)
                     IN  Result(db, [Failure(op, "filtered", Ok)
                                        EXCEPT !.next_token = get_next_page(pagination_token, count),
                                               !.secret_values = [ i \in 1..Len(found) |->
                                                                    SecretValueEntry(found[i]) ]])
      [] filters = None /\ secret_id_list # None ->
            LET acc == batch_get_list([db |-> db, secret_values |-> <<>>, errors |-> <<>>],
                                      clock, secret_id_list[1])
            IN  Result(acc.db, [Failure(op, "listed", Ok)
                                    EXCEPT !.secret_values = acc.secret_values,
                                           !.errors = acc.errors])
      \* "Must only specify one or the other and not both and cannot pick neither"
      [] OTHER -> Result(db, Failure(op, "both_or_neither", InvalidRequestException))

----------------------------------------------------------------------------
(* ListSecretVersionIds *)

\* ListSecretVersionIdsRequest: serde defaults of IncludeDeprecated, MaxResults, NextToken
version_ids_default_include_deprecated == FALSE
version_ids_default_max_results == 100
version_ids_default_next_token == PaginationToken(100, 0)

\* Whether the listing query selects a version: one with no stage label is
\* selected only when include_deprecated
version_listed(db, arn, version_id, include_deprecated) ==
    /\ \E v \in db.versions : v.secret_arn = arn /\ v.version_id = version_id
    /\ include_deprecated \/ VersionStages(db, arn, version_id) # {}

\* The ids of the versions the query selects, in the order the store returns
\* them: version_order is the ids of the store in that order
RECURSIVE VersionRows(_, _, _, _)
VersionRows(db, arn, include_deprecated, version_order) ==
    IF version_order = <<>>
    THEN <<>>
    ELSE (IF version_listed(db, arn, version_order[1], include_deprecated)
          THEN << version_order[1] >> ELSE <<>>)
            \o VersionRows(db, arn, include_deprecated, Tail(version_order))

\* The page (limit, offset) of the versions of a secret
get_secret_versions_page(db, arn, include_deprecated, limit, offset, version_order) ==
    LET rows == VersionRows(db, arn, include_deprecated, version_order)
    IN  SubSeq(rows, offset + 1, Min(offset + limit, Len(rows)))

\* The number of versions of a secret the query selects, before paging
count_secret_versions(db, arn, include_deprecated) ==
    Cardinality({ v \in { x \in db.versions : x.secret_arn = arn } :
                    version_listed(db, arn, v.version_id, include_deprecated) })

SecretVersionsListEntry(db, arn, version_id) ==
    [ version_id |-> version_id, version_stages |-> VersionStages(db, arn, version_id) ]

\* version_ids_next_token as it would be if a next page were always announced
version_ids_next_token_always(pagination_token, count) ==
    Some([pagination_token EXCEPT !.page_index = @ + 1])

\* "let next_token = pagination_token.get_next_page(count)"
version_ids_next_token(pagination_token, count) == get_next_page(pagination_token, count)

\* version_ids_include_deprecated as it would be if the flag were not passed on
version_ids_include_all(include_deprecated) == TRUE

\* The include_deprecated the handler hands to both queries
version_ids_include_deprecated(include_deprecated) == include_deprecated

ListSecretVersionIdsHandler(db, secret_id, include_deprecated, max_results, next_token, version_order) ==
    LET op == "ListSecretVersionIds"
        pagination_token == page_size(next_token, max_results)
        secret == get_secret_latest_version(db, secret_id)
        parts == as_query_parts(pagination_token)
        deprecated == version_ids_include_deprecated(include_deprecated)
    IN
    IF secret = NoRow
    THEN Result(db, Failure(op, "not_found", ResourceNotFoundException))
    ELSE IF parts = None
    THEN Result(db, Failure(op, "query_parts", InvalidRequestException))
    ELSE LET limit == parts[1][1]
             offset == parts[1][2]
             versions_page == get_secret_versions_page(db, secret.arn, deprecated,
                                                       limit, offset, version_order)
             count == count_secret_versions(db, secret.arn, deprecated)
         IN  Result(db, [Response(op, "listed", Ok, secret.arn, Null, {}, NoPayload, NoDate)
                            EXCEPT !.next_token = version_ids_next_token(pagination_token, count),
                                   !.versions = [ i \in 1..Len(versions_page) |->
                                        SecretVersionsListEntry(db, secret.arn, versions_page[i]) ]])

----------------------------------------------------------------------------
(* GetRandomPassword *)

\* The character classes, cut to their first characters
LOWERCASE == <<"a", "b">>
UPPERCASE == <<"A">>
NUMBERS == <<"0">>
PUNCTUATION == <<"!">>

PasswordOptions(exclude_characters, exclude_lowercase, exclude_numbers, exclude_punctuation, exclude_uppercase, include_space, password_length, require_each_included_type) ==
    [ exclude_characters |-> exclude_characters,
      exclude_lowercase |-> exclude_lowercase, exclude_numbers |-> exclude_numbers,
      exclude_punctuation |-> exclude_punctuation, exclude_uppercase |-> exclude_uppercase,
      include_space |-> include_space, password_length |-> password_length,
      require_each_included_type |-> require_each_included_type ]

\* excluded.contains(item)
chars_contains(excluded, item) == \E i \in 1..Len(excluded) : excluded[i] = item

\* filter_allowed as it would be if nothing were filtered out
filter_allowed_everything(set, excluded) == set

\* The characters of a class that are not in the excluded list
filter_allowed(set, excluded) ==
    SelectSeq(set, LAMBDA item : ~chars_contains(excluded, item))

\* Option<Vec<char>> of one class
type_set(excluded, set, exclude_characters) ==
    IF excluded THEN None ELSE Some(filter_allowed(set, exclude_characters))

\* "Collect character sets by allowed type"
type_sets(opts) ==
    type_set(opts.exclude_lowercase, LOWERCASE, opts.exclude_characters)
        \o type_set(opts.exclude_uppercase, UPPERCASE, opts.exclude_characters)
        \o type_set(opts.exclude_numbers, NUMBERS, opts.exclude_characters)
        \o type_set(opts.exclude_punctuation, PUNCTUATION, opts.exclude_characters)

RECURSIVE flatten(_)
flatten(sets) == IF sets = <<>> THEN <<>> ELSE sets[1] \o flatten(Tail(sets))

\* "Collect all available characters", and the space if it is not excluded
allowed_chars(opts) ==
    flatten(type_sets(opts))
        \o (IF opts.include_space /\ ~chars_contains(opts.exclude_characters, " ")
            THEN << " " >> ELSE <<>>)

\* set.choose(&mut rng): r is the number the generator draws
choose(set, r) == IF set = <<>> THEN None ELSE Some(set[(r % Len(set)) + 1])

PasswordError(error) == [ok |-> FALSE, error |-> error, password |-> <<>>]

\* get_random_password: rng.draws[i] is the draw of the i-th choose, rng.shuffle
\* the permutation the shuffle applies
get_random_password(opts, rng) ==
    LET sets == type_sets(opts)
        allowed == allowed_chars(opts)
        length == opts.password_length
        password_chars ==
            [ i \in 1..length |->
                IF opts.require_each_included_type /\ i <= Len(sets)
                THEN choose(sets[i], rng.draws[i])
                ELSE choose(allowed, rng.draws[i]) ]
    IN
    IF allowed = <<>>
    THEN PasswordError("EmptyCharSet")
    ELSE IF opts.require_each_included_type
    THEN IF length < Len(sets)
         THEN PasswordError("InvalidLength")
         ELSE IF \E i \in 1..Len(sets) : password_chars[i] = None
         THEN PasswordError("EmptyTypeSet")
         ELSE IF \E i \in 1..length : password_chars[i] = None
         THEN PasswordError("EmptyCharSet")
         \* "Shuffle so the required characters are not all at the front"
         ELSE [ ok |-> TRUE, error |-> "none",
                password |-> [ i \in 1..length |-> password_chars[rng.shuffle[i]][1] ] ]
    ELSE IF \E i \in 1..length : password_chars[i] = None
         THEN PasswordError("EmptyCharSet")
         ELSE [ ok |-> TRUE, error |-> "none",
                password |-> [ i \in 1..length |-> password_chars[i][1] ] ]

GetRandomPasswordHandler(db, opts, rng) ==
    LET op == "GetRandomPassword"
        random_password == get_random_password(opts, rng)
    IN
    IF ~random_password.ok
    THEN Result(db, Failure(op, random_password.error, InvalidRequestException))
    ELSE Result(db, [ Response(op, "password", Ok, Null, Null, {}, NoPayload, NoDate)
                        EXCEPT !.random_password = random_password.password ])

----------------------------------------------------------------------------
(* Bounds: the sets the requests are drawn from *)

\* Largest number of version rows the store of the model holds
MaxVersions == 3

Names == {"n1"}
Suffixes == {"Ab3dE9"}
\* A second outcome of the random suffix, for a secret created again
MoreSuffixes == {"Ab3dE9", "x7Qp0Z"}
AllTokens == <<"t1", "t2", "t3", "t4", "t5", "t6">>
Tokens == { AllTokens[i] : i \in 1..MaxVersions }
CustomStages == {"custom"}
StageLabels == {AWSCURRENT, AWSPREVIOUS} \cup CustomStages

\* A SecretId of a request is a name or an ARN
SecretIds == Names \cup { create_secret_arn(n, s) : n \in Names, s \in Suffixes }

\* Option<Vec<String>> of PutSecretValue: <<>> is None, <<l>> is Some(l)
StageLists ==
    { <<>>, << <<>> >>, << <<AWSPREVIOUS>> >>, << <<"custom">> >>,
      << <<AWSCURRENT, AWSPREVIOUS>> >>, << <<AWSPREVIOUS, AWSCURRENT>> >>,
      << <<AWSCURRENT, AWSCURRENT>> >> }

Tag(k, v) == [key |-> k, value |-> v]

\* The requests of the stage machine: three tokens, one payload
StageDomain ==
    [ names |-> Names, suffixes |-> Suffixes, ids |-> SecretIds, tokens |-> Tokens,
      strings |-> {Null, "s1"}, binaries |-> {Null},
      descriptions |-> {Null}, tagLists |-> { <<>> }, tagKeys |-> { <<>> },
      stageLists |-> StageLists, stages |-> StageLabels,
      windows |-> {7}, forces |-> BOOLEAN ]

\* The requests of a replay: two tokens, three payloads and the requests without
\* or with two payloads, two outcomes of the random suffix, tags, forced deletion
ReplayDomain ==
    [ names |-> Names, suffixes |-> MoreSuffixes,
      ids |-> Names \cup { create_secret_arn(n, s) : n \in Names, s \in MoreSuffixes },
      tokens |-> {"t1", "t2"},
      strings |-> {Null, "s1", "s2"}, binaries |-> {Null, "b1"},
      descriptions |-> {Null},
      tagLists |-> { <<>>, << Tag("k1", "v1") >> }, tagKeys |-> { <<>> },
      stageLists |-> { <<>> }, stages |-> {AWSCURRENT},
      windows |-> {7}, forces |-> {TRUE} ]

\* The requests of the life of a secret: two tokens, one payload, tags, reads,
\* scheduled and forced deletion, restoration
LifeDomain ==
    [ names |-> Names, suffixes |-> Suffixes, ids |-> SecretIds,
      tokens |-> {"t1", "t2"},
      strings |-> {Null, "s1"}, binaries |-> {Null},
      descriptions |-> {Null},
      tagLists |-> { <<>>, << Tag("k1", "v1") >> }, tagKeys |-> { <<>>, << "k1" >> },
      stageLists |-> { <<>> }, stages |-> {AWSCURRENT, AWSPREVIOUS},
      windows |-> {7, 30}, forces |-> BOOLEAN ]

\* The requests of the listing operations: two names and an id that names no
\* secret, one token, scheduled deletion, filters, id lists of one or two ids
ListNames == {"n1", "n2"}
ListIds == ListNames \cup {"n3"}

ListDomain ==
    [ names |-> ListNames, suffixes |-> Suffixes,
      ids |-> ListNames \cup { create_secret_arn(n, s) : n \in ListNames, s \in Suffixes },
      tokens |-> {"t1"},
      strings |-> {"s1"}, binaries |-> {Null},
      descriptions |-> {Null}, tagLists |-> { <<>> }, tagKeys |-> { <<>> },
      stageLists |-> { <<>> }, stages |-> {AWSCURRENT},
      windows |-> {7}, forces |-> {FALSE},
      filterLists |-> { <<>>, << Filter("name", <<"n1">>, FALSE) >>,
                        << Filter("all", <<"n">>, FALSE), Filter("name", <<"1">>, TRUE) >> },
      idLists |-> { <<a>> : a \in ListIds } \cup { <<a, b>> : a \in ListIds, b \in ListIds },
      maxResults |-> {1, list_default_max_results},
      nextTokens |-> {list_default_next_token, PaginationToken(100, 1)},
      createdOrders |-> { <<"n1", "n2">>, <<"n2", "n1">> } ]

\* The requests of the rotations and the listings: a secret created with the
\* first token and rotated MaxRotations times, a second secret beside it, pages
\* of one, of two and of the default size
MaxRotations == 3
PageTokens == { AllTokens[i] : i \in 1..(MaxRotations + 1) }
PageNames == {"n1", "n2"}

\* The sequences that hold every element of a set once
RECURSIVE Orders(_)
Orders(S) ==
    IF S = {} THEN { <<>> }
    ELSE UNION { { <<x>> \o rest : rest \in Orders(S \ {x}) } : x \in S }

PageDomain ==
    [ names |-> PageNames, suffixes |-> Suffixes, ids |-> PageNames \cup {"n3"},
      tokens |-> { AllTokens[1] },
      strings |-> {"s1"}, binaries |-> {Null},
      descriptions |-> {Null}, tagLists |-> { <<>> },
      filterLists |-> { <<>> },
      maxResults |-> {1, 2, list_default_max_results},
      nextTokens |-> {list_default_next_token, PaginationToken(100, 1)},
      createdOrders |-> { <<"n1", "n2">>, <<"n2", "n1">> },
      versionOrders |-> { [i \in 1..(MaxRotations + 1) |-> AllTokens[i]],
                          [i \in 1..(MaxRotations + 1) |-> AllTokens[MaxRotations + 2 - i]] } ]

PageRotations ==
    [ ids |-> {"n1"}, tokens |-> PageTokens \ { AllTokens[1] },
      strings |-> {"s1"}, binaries |-> {Null}, stageLists |-> { <<>> } ]

\* The rows of secrets_versions the requests of any one domain can make
MaxRows == IF MaxVersions > MaxRotations + 2 THEN MaxVersions ELSE MaxRotations + 2

\* The requests of concurrent writers: one secret created with the first
\* token, rotations with the other tokens, and moves of AWSCURRENT from one
\* version to another
ConcCreate ==
    [ names |-> Names, suffixes |-> Suffixes, tokens |-> { AllTokens[1] },
      strings |-> {"s1"}, binaries |-> {Null}, descriptions |-> {Null},
      tagLists |-> { <<>> } ]

ConcDomain ==
    [ ids |-> Names, tokens |-> Tokens \ { AllTokens[1] },
      strings |-> {"s1"}, binaries |-> {Null}, descriptions |-> {Null},
      stageLists |-> { <<>> }, stages |-> {AWSCURRENT},
      moves |-> { <<a, b>> \in Tokens \X Tokens : a # b } ]

\* The requests around the Reaper: two secrets created with a tag, scheduled
\* for deletion with the shortest window, restored
ReapDomain ==
    [ names |-> ListNames, suffixes |-> Suffixes, ids |-> ListNames,
      tokens |-> {"t1"},
      strings |-> {"s1"}, binaries |-> {Null}, descriptions |-> {Null},
      tagLists |-> { << Tag("k1", "v1") >> }, tagKeys |-> { <<>> },
      stageLists |-> { <<>> }, stages |-> {AWSCURRENT},
      windows |-> {7}, forces |-> {FALSE} ]

\* The days the clock runs for, and the days that pass at once: the day before
\* a deletion scheduled today is due, and one day
MaxDays == 7
DaySteps == {1, 6}

\* The requests of the concurrent rotations: two tokens beside the one of
\* the creation, so that two calls can use one token or two
RotateDomain == [ConcDomain EXCEPT !.tokens = {"t2", "t3"}]

\* The calls that may be in progress at once, and the workers that run them
MaxCalls == 2
Workers == 1..MaxCalls
NoCall == [op |-> "none", pc |-> "idle"]
NoCalls == [w \in Workers |-> NoCall]

\* The GetRandomPassword requests: every choice of classes, lengths up to
\* MaxPasswordLength, exclusions that spare a class, empty a class, or empty all
MaxPasswordLength == 3
PasswordExcludes ==
    { <<>>, << "a", " " >>, << "a", "b" >>, << " ", "a", "b", "A", "0", "!" >> }
PasswordRequests ==
    { PasswordOptions(ec, el, en, ep, eu, sp, len, req) :
        ec \in PasswordExcludes, el \in BOOLEAN, en \in BOOLEAN, ep \in BOOLEAN,
        eu \in BOOLEAN, sp \in BOOLEAN, len \in 1..MaxPasswordLength, req \in BOOLEAN }

\* What the random generator may draw while it serves a request: numbers that
\* reach every character of every set it chooses from
Rngs(opts) ==
    [ draws : [1..opts.password_length -> 0..Len(allowed_chars(opts))],
      shuffle : IF opts.require_each_included_type
                THEN Permutations(1..opts.password_length)
                ELSE { [i \in 1..opts.password_length |-> i] } ]

----------------------------------------------------------------------------
(* The requests a client sends through the gate *)

\* The server clock at start, in seconds, and the ticks it may advance
GateClock == 1000
MaxTicks == 1

\* How far from the client's time a Date header may be written
LaterSeconds == 4 * ToleranceSeconds

\* How a client writes the parts of one request
GateBase ==
    [ authorization |-> "signed", amz_date |-> "amz", http_date |-> "missing",
      offset |-> 0, access_key_id |-> "AKID", secret_access_key |-> "SECRET",
      tamper |-> "none", body_readable |-> TRUE, method |-> "POST", extra |-> "missing" ]

GateFields == DOMAIN GateBase

\* What a client may write for each part; extra is the header x-extra, which no
\* client lists in SignedHeaders
GateValues ==
    [ authorization |-> { "signed", "missing", "notstr", "basic", "norest", "nopair",
                          "nocredential", "nosignature", "shortscope", "longscope",
                          "badterminator" },
      amz_date |-> { "amz", "missing", "garbage", "notstr" },
      http_date |-> { "missing", "imf", "imf_later", "garbage" },
      offset |-> { 0, ToleranceSeconds, ToleranceSeconds + 1,
                   -ToleranceSeconds, -(ToleranceSeconds + 1) },
      access_key_id |-> { "AKID", "OTHER" },
      secret_access_key |-> { "SECRET", "WRONG" },
      tamper |-> { "none", "body" },
      body_readable |-> BOOLEAN,
      method |-> { "POST", "GET" },
      extra |-> { "missing", "a", "b", "notstr" } ]

\* The choices that differ from c in at most the part f; GateChoices are the
\* ones that differ from a well-formed, well-signed request in at most two parts
VaryPart(c, f) == { [c EXCEPT ![f] = v] : v \in GateValues[f] }

GateChoices ==
    UNION { UNION { VaryPart(d, g) : d \in VaryPart(GateBase, f) } : f \in GateFields, g \in GateFields }

\* The bodies a client sends, by name
GateBody(name) ==
    LET Object(fields) == [json |-> TRUE, fields |-> fields, trailing |-> ""]
        id == JsonString("n1")
    IN  CASE name = "create" -> Object([Name |-> id, SecretString |-> JsonString("s1")])
          [] name = "get" -> Object([SecretId |-> id])
          [] name = "get_empty_stage" -> Object([SecretId |-> id, VersionStage |-> JsonString("")])
          [] name = "delete_forced" -> Object([SecretId |-> id, ForceDeleteWithoutRecovery |-> JsonBool(TRUE)])
          [] name = "delete_in_7" -> Object([SecretId |-> id, RecoveryWindowInDays |-> JsonNumber(7)])
          [] name = "delete_in_5" -> Object([SecretId |-> id, RecoveryWindowInDays |-> JsonNumber(5)])
          [] name = "id_number" -> Object([SecretId |-> JsonNumber(5)])
          [] name = "not_json" -> [json |-> FALSE, fields |-> [SecretId |-> id], trailing |-> ""]

GateBodies ==
    { "create", "get", "get_empty_stage", "delete_forced", "delete_in_7", "delete_in_5",
      "id_number", "not_json" }

GateTargets ==
    { "secretsmanager.CreateSecret", "secretsmanager.GetSecretValue",
      "secretsmanager.DeleteSecret", "secretsmanager.Nope", "missing" }

GateTokens == { "t1" }

\* The target and body of a request, and the ones of a well-formed request
GatePayloads == GateTargets \X GateBodies
GateBasePayload == <<"secretsmanager.GetSecretValue", "get">>

\* The SignedHeaders a client lists
ClientSignedHeaders == <<"host", "x-amz-date", "x-amz-target">>

\* The request a client builds from its choices c for a target and a body: it
\* signs method, URI, the listed headers and the body with its secret key, then
\* (tamper = "body") the body gains a trailing blank on the way
ClientRequest(c, target, body) ==
    LET t == GateClock + c.offset
        \* a Date header written "imf_later" names a time LaterSeconds after the client's
        DateText(kind) ==
            [ fmt |-> CASE kind \in {"garbage", "notstr"} -> "garbage"
                        [] kind = "imf_later" -> "imf"
                        [] OTHER -> kind,
              t |-> IF kind = "imf_later" THEN t + LaterSeconds ELSE t ]
        present == {"host"}
                    \cup (IF c.amz_date = "missing" THEN {} ELSE {"x-amz-date"})
                    \cup (IF c.http_date = "missing" THEN {} ELSE {"date"})
                    \cup (IF target = "missing" THEN {} ELSE {"x-amz-target"})
                    \cup (IF c.extra = "missing" THEN {} ELSE {"x-extra"})
        sent == [ name \in present |->
                    CASE name = "host" -> [str |-> TRUE, v |-> "localhost"]
                      [] name = "x-amz-date" -> [str |-> c.amz_date # "notstr", v |-> DateText(c.amz_date)]
                      [] name = "date" -> [str |-> TRUE, v |-> DateText(c.http_date)]
                      [] name = "x-amz-target" -> [str |-> TRUE, v |-> target]
                      [] name = "x-extra" -> [str |-> c.extra # "notstr", v |-> c.extra] ]
        signature == sign(c.method, "/", SignedHeadersOf(sent, ClientSignedHeaders),
                          GateBody(body), c.secret_access_key, "us-east-1", "secretsmanager", t)
        Pair(key, value) == [key |-> key, has_value |-> TRUE, value |-> value]
        scope == <<c.access_key_id, "20250101", "us-east-1", "secretsmanager">>
        Credential(parts) == Pair("Credential", parts)
        Listed == Pair("SignedHeaders", ClientSignedHeaders)
        Signature == Pair("Signature", signature)
        Text(pairs) == [algorithm |-> "AWS4-HMAC-SHA256", rest |-> Some(pairs)]
        full == <<Credential(scope \o <<"aws4_request">>), Listed, Signature>>
        text ==
            CASE c.authorization \in {"signed", "notstr"} -> Text(full)
              [] c.authorization = "basic" -> [algorithm |-> "Basic", rest |-> Some(full)]
              [] c.authorization = "norest" -> [algorithm |-> "AWS4-HMAC-SHA256", rest |-> None]
              [] c.authorization = "nopair" ->
                    Text(<<[key |-> "Credential", has_value |-> FALSE, value |-> scope]>>)
              [] c.authorization = "nocredential" -> Text(<<Listed, Signature>>)
              [] c.authorization = "nosignature" ->
                    Text(<<Credential(scope \o <<"aws4_request">>), Listed>>)
              [] c.authorization = "shortscope" -> Text(<<Credential(scope), Listed, Signature>>)
              [] c.authorization = "longscope" ->
                    Text(<<Credential(scope \o <<"aws4_request", "extra">>), Listed, Signature>>)
              [] c.authorization = "badterminator" ->
                    Text(<<Credential(scope \o <<"aws4">>), Listed, Signature>>)
              [] OTHER -> Text(full)
        headers == [ name \in present \cup (IF c.authorization = "missing" THEN {}
                                             ELSE {"authorization"}) |->
                        IF name = "authorization"
                        THEN [str |-> c.authorization # "notstr", v |-> text]
                        ELSE sent[name] ]
    IN  [ method |-> c.method, uri |-> "/", headers |-> headers,
          body |-> [GateBody(body) EXCEPT !.trailing = IF c.tamper = "body" THEN " " ELSE ""],
          body_readable |-> c.body_readable ]

----------------------------------------------------------------------------
(* The actions: one request served at a time *)

\* The store and the response after a handler returned result r
Serve(r) ==
    /\ Cardinality(r.db.versions) <= MaxRows
    /\ secrets' = r.db.secrets
    /\ versions' = r.db.versions
    /\ stages' = r.db.stages
    /\ tags' = r.db.tags
    /\ resp' = r.resp
    /\ UNCHANGED <<now, inflight>>

CreateSecret(D) ==
    \E name \in D.names, suffix \in D.suffixes, token \in D.tokens,
       description \in D.descriptions,
       secret_string \in D.strings, secret_binary \in D.binaries,
       tagList \in D.tagLists :
        Serve(CreateSecretHandler(DB, now, name, suffix, token, description,
                                  secret_string, secret_binary, tagList))

PutSecretValue(D) ==
    \E secret_id \in D.ids, token \in D.tokens,
       secret_string \in D.strings, secret_binary \in D.binaries,
       stage_opt \in D.stageLists :
        Serve(PutSecretValueHandler(DB, secret_id, token, secret_string, secret_binary,
                                    stage_opt))

UpdateSecret(D) ==
    \E secret_id \in D.ids, token \in D.tokens,
       description \in D.descriptions,
       secret_string \in D.strings, secret_binary \in D.binaries :
        Serve(UpdateSecretHandler(DB, now, secret_id, token, description,
                                  secret_string, secret_binary))

UpdateSecretVersionStage(D) ==
    \E secret_id \in D.ids, version_stage \in D.stages,
       move_to_version_id \in D.tokens \cup {Null},
       remove_from_version_id \in D.tokens \cup {Null} :
        Serve(UpdateSecretVersionStageHandler(DB, secret_id, version_stage,
                                              move_to_version_id, remove_from_version_id))

DeleteSecret(D) ==
    \E secret_id \in D.ids, force \in D.forces, days \in D.windows :
        Serve(DeleteSecretHandler(DB, now, secret_id, force, days))

RestoreSecret(D) ==
    \E secret_id \in D.ids :
        Serve(RestoreSecretHandler(DB, secret_id))

GetSecretValue(D) ==
    \E secret_id \in D.ids, version_id \in D.tokens \cup {Null},
       version_stage \in D.stages \cup {Null} :
        Serve(GetSecretValueHandler(DB, now, secret_id, version_id, version_stage))

DescribeSecret(D) ==
    \E secret_id \in D.ids :
        Serve(DescribeSecretHandler(DB, secret_id))

TagResource(D) ==
    \E secret_id \in D.ids, tagList \in D.tagLists :
        Serve(TagResourceHandler(DB, now, secret_id, tagList))

UntagResource(D) ==
    \E secret_id \in D.ids, tag_keys \in D.tagKeys :
        Serve(UntagResourceHandler(DB, secret_id, tag_keys))

ListSecrets(D) ==
    \E filters \in D.filterLists, include_planned_deletion \in BOOLEAN,
       max_results \in D.maxResults, next_token \in D.nextTokens,
       sort_order \in {"asc", "desc"}, created_order \in D.createdOrders :
        Serve(ListSecretsHandler(DB, filters, include_planned_deletion, max_results,
                                 next_token, sort_order, created_order))

BatchGetSecretValue(D) ==
    \E filters \in {None} \cup { Some(f) : f \in D.filterLists },
       secret_id_list \in {None} \cup { Some(l) : l \in D.idLists },
       max_results \in {None, Some(1)}, created_order \in D.createdOrders :
        \* the requests with both are answered alike whatever the store: few are sent
        /\ filters # None /\ secret_id_list # None =>
                filters = Some(<<>>) /\ Len(secret_id_list[1]) = 1
        /\ Serve(BatchGetSecretValueHandler(DB, now, filters, secret_id_list, max_results,
                                            None, created_order))

Init ==
    /\ secrets = {}
    /\ versions = {}
    /\ stages = {}
    /\ tags = {}
    /\ now = 0
    /\ resp = Failure("none", "init", Ok)
    /\ inflight = NoCalls

\* The stage machine: the operations that create versions and move labels
Next ==
    \/ CreateSecret(StageDomain)
    \/ PutSecretValue(StageDomain)
    \/ UpdateSecret(StageDomain)
    \/ UpdateSecretVersionStage(StageDomain)
    \/ DeleteSecret(StageDomain)
    \/ RestoreSecret(StageDomain)

Spec == Init /\ [][Next]_vars

\* Replays: the operations that insert versions, with the ones that remove them
NextReplay ==
    \/ CreateSecret(ReplayDomain)
    \/ PutSecretValue(ReplayDomain)
    \/ UpdateSecret(ReplayDomain)
    \/ UpdateSecretVersionStage(ReplayDomain)
    \/ DeleteSecret(ReplayDomain)
    \/ TagResource(ReplayDomain)

SpecReplay == Init /\ [][NextReplay]_vars

\* The life of a secret: every operation, over LifeDomain
NextLife ==
    \/ CreateSecret(LifeDomain)
    \/ PutSecretValue(LifeDomain)
    \/ UpdateSecret(LifeDomain)
    \/ UpdateSecretVersionStage(LifeDomain)
    \/ DeleteSecret(LifeDomain)
    \/ RestoreSecret(LifeDomain)
    \/ GetSecretValue(LifeDomain)
    \/ DescribeSecret(LifeDomain)
    \/ TagResource(LifeDomain)
    \/ UntagResource(LifeDomain)

SpecLife == Init /\ [][NextLife]_vars


\* One request through the gate, post_service and the router
HttpRequest ==
    \E c \in GateChoices, p \in GatePayloads :
    \E suffix \in Suffixes, generated \in GateTokens :
        \* what a request the gate refuses carries as target and body decides nothing
        /\ c = GateBase \/ p = GateBasePayload
        /\ Serve(App_call(DB, now, ClientRequest(c, p[1], p[2]), suffix, generated))

\* The server clock advances by a second
Tick ==
    /\ now < GateClock + MaxTicks
    /\ now' = now + 1
    /\ UNCHANGED <<secrets, versions, stages, tags, resp, inflight>>

InitGate ==
    /\ secrets = {}
    /\ versions = {}
    /\ stages = {}
    /\ tags = {}
    /\ now = GateClock
    /\ resp = Failure("none", "init", Ok)
    /\ inflight = NoCalls

\* The server behind its gate
NextGate ==
    \/ HttpRequest
    \/ Tick

SpecGate == InitGate /\ [][NextGate]_vars

\* The listing operations, with the operations that create, schedule, restore
\* and relabel what they list
NextList ==
    \/ CreateSecret(ListDomain)
    \/ UpdateSecretVersionStage(ListDomain)
    \/ DeleteSecret(ListDomain)
    \/ RestoreSecret(ListDomain)
    \/ GetSecretValue(ListDomain)
    \/ DescribeSecret(ListDomain)
    \/ ListSecrets(ListDomain)
    \/ BatchGetSecretValue(ListDomain)

SpecList == Init /\ [][NextList]_vars

\* The store and the answer a call leaves when it commits or returns
Answer_of(r) ==
    /\ Cardinality(r.db.versions) <= MaxRows
    /\ secrets' = r.db.secrets
    /\ versions' = r.db.versions
    /\ stages' = r.db.stages
    /\ tags' = r.db.tags
    /\ resp' = r.resp
    /\ UNCHANGED now

\* A worker has read the secret and is about to open its transaction
Holding(w, call) ==
    /\ inflight' = [inflight EXCEPT ![w] = call]
    /\ UNCHANGED <<secrets, versions, stages, tags, now, resp>>

\* PutSecretValue up to db.begin(): the validation and get_secret_latest_version
PutSecretValueRead(w, D) ==
    /\ inflight[w] = NoCall
    /\ \E secret_id \in D.ids, token \in D.tokens,
          secret_string \in D.strings, secret_binary \in D.binaries,
          stage_opt \in D.stageLists :
        \A secret \in {get_secret_latest_version(DB, secret_id)} :
            IF put_returns_early(secret, secret_string, secret_binary, stage_opt)
            THEN /\ Answer_of(PutSecretValueHandler(DB, secret_id, token, secret_string,
                                                    secret_binary, stage_opt))
                 /\ UNCHANGED inflight
            ELSE Holding(w, [ op |-> "PutSecretValue", pc |-> "begin", secret |-> secret,
                              version_id |-> token, secret_string |-> secret_string,
                              secret_binary |-> secret_binary,
                              version_stages |-> put_version_stages(stage_opt) ])

\* PutSecretValue from db.begin() to the commit or the rollback
PutSecretValueCommit(w) ==
    /\ inflight[w].op = "PutSecretValue"
    /\ \A c \in {inflight[w]} :
        Answer_of(PutSecretValueWrite(DB, c.secret, c.version_id, c.secret_string,
                                      c.secret_binary, c.version_stages))
    /\ inflight' = [inflight EXCEPT ![w] = NoCall]

\* UpdateSecret up to its transaction
UpdateSecretRead(w, D) ==
    /\ inflight[w] = NoCall
    /\ \E secret_id \in D.ids, token \in D.tokens, description \in D.descriptions,
          secret_string \in D.strings, secret_binary \in D.binaries :
        \A secret \in {get_secret_latest_version(DB, secret_id)} :
            IF update_returns_early(secret, secret_string, secret_binary)
            THEN /\ Answer_of(UpdateSecretHandler(DB, now, secret_id, token, description,
                                                  secret_string, secret_binary))
                 /\ UNCHANGED inflight
            ELSE Holding(w, [ op |-> "UpdateSecret", pc |-> "begin", secret |-> secret,
                              version_id |-> token, description |-> description,
                              secret_string |-> secret_string,
                              secret_binary |-> secret_binary ])

\* The transaction of UpdateSecret
UpdateSecretCommit(w) ==
    /\ inflight[w].op = "UpdateSecret"
    /\ \A c \in {inflight[w]} :
        Answer_of(UpdateSecretWrite(DB, now, c.secret, c.version_id, c.description,
                                    c.secret_string, c.secret_binary))
    /\ inflight' = [inflight EXCEPT ![w] = NoCall]

\* UpdateSecretVersionStage up to its transaction
UpdateSecretVersionStageRead(w, D) ==
    /\ inflight[w] = NoCall
    /\ \E secret_id \in D.ids, version_stage \in D.stages, move \in D.moves :
        \A secret \in {get_secret_latest_version(DB, secret_id)} :
            IF secret = NoRow
            THEN /\ Answer_of(UpdateSecretVersionStageHandler(DB, secret_id, version_stage,
                                                              move[1], move[2]))
                 /\ UNCHANGED inflight
            ELSE Holding(w, [ op |-> "UpdateSecretVersionStage", pc |-> "begin",
                              secret |-> secret, version_stage |-> version_stage,
                              move_to_version_id |-> move[1],
                              remove_from_version_id |-> move[2] ])

\* The transaction of UpdateSecretVersionStage
UpdateSecretVersionStageCommit(w) ==
    /\ inflight[w].op = "UpdateSecretVersionStage"
    /\ \A c \in {inflight[w]} :
        Answer_of(UpdateSecretVersionStageWrite(DB, c.secret, c.version_stage,
                                                c.move_to_version_id,
                                                c.remove_from_version_id))
    /\ inflight' = [inflight EXCEPT ![w] = NoCall]

\* Writers of one secret, each between its read and its transaction while the
\* others run
NextConc ==
    \/ CreateSecret(ConcCreate)
    \/ \E w \in Workers : PutSecretValueRead(w, ConcDomain)
    \/ \E w \in Workers : PutSecretValueCommit(w)
    \/ \E w \in Workers : UpdateSecretRead(w, ConcDomain)
    \/ \E w \in Workers : UpdateSecretCommit(w)
    \/ \E w \in Workers : UpdateSecretVersionStageRead(w, ConcDomain)
    \/ \E w \in Workers : UpdateSecretVersionStageCommit(w)

SpecConc == Init /\ [][NextConc]_vars

\* Concurrent rotations of one secret, and nothing else
NextRotate ==
    \/ CreateSecret(ConcCreate)
    \/ \E w \in Workers : PutSecretValueRead(w, RotateDomain)
    \/ \E w \in Workers : PutSecretValueCommit(w)
    \/ \E w \in Workers : UpdateSecretRead(w, RotateDomain)
    \/ \E w \in Workers : UpdateSecretCommit(w)

SpecRotate == Init /\ [][NextRotate]_vars

\* Days pass on the server clock
DaysPass ==
    /\ \E d \in DaySteps : now + d <= MaxDays /\ now' = now + d
    /\ UNCHANGED <<secrets, versions, stages, tags, resp, inflight>>

\* The background task wakes and makes its pass
Reaper ==
    /\ \A db \in {perform_background_tasks(DB, now)} :
        /\ secrets' = db.secrets
        /\ versions' = db.versions
        /\ stages' = db.stages
        /\ tags' = db.tags
        /\ resp' = Failure("Reaper", IF db = DB THEN "idle" ELSE "deleted", Ok)
    /\ UNCHANGED <<now, inflight>>

\* The Reaper beside the operations that create, schedule and restore
NextReap ==
    \/ CreateSecret(ReapDomain)
    \/ DeleteSecret(ReapDomain)
    \/ RestoreSecret(ReapDomain)
    \/ DaysPass
    \/ Reaper

SpecReap == Init /\ [][NextReap]_vars

ListSecretVersionIds(D) ==
    \E secret_id \in D.ids, include_deprecated \in BOOLEAN,
       max_results \in D.maxResults, next_token \in D.nextTokens,
       version_order \in D.versionOrders :
        Serve(ListSecretVersionIdsHandler(DB, secret_id, include_deprecated, max_results,
                                          next_token, version_order))

\* Rotations of one secret, a second secret, and the paginated listings
NextPages ==
    \/ CreateSecret(PageDomain)
    \/ PutSecretValue(PageRotations)
    \/ ListSecretVersionIds(PageDomain)
    \/ ListSecrets(PageDomain)

SpecPages == Init /\ [][NextPages]_vars

\* A worker answers the GetRandomPassword request it holds
GetRandomPassword(w) ==
    /\ inflight[w].op = "GetRandomPassword"
    /\ inflight[w].pc = "called"
    /\ \E rng \in Rngs(inflight[w].opts) :
        resp' = GetRandomPasswordHandler(DB, inflight[w].opts, rng).resp
    /\ inflight' = [inflight EXCEPT ![w].pc = "returned"]
    /\ UNCHANGED <<secrets, versions, stages, tags, now>>

\* One GetRandomPassword request has been received
InitPassword ==
    /\ secrets = {}
    /\ versions = {}
    /\ stages = {}
    /\ tags = {}
    /\ now = 0
    /\ resp = Failure("none", "init", Ok)
    /\ \E opts \in PasswordRequests :
        inflight = [NoCalls EXCEPT ![1] = [op |-> "GetRandomPassword", pc |-> "called", opts |-> opts]]

NextPassword == \E w \in Workers : GetRandomPassword(w)

SpecPassword == InitPassword /\ [][NextPassword]_vars

----------------------------------------------------------------------------
(* The stage machine: C1, C2, C3, C8 *)

store == <<secrets, versions, stages, tags>>

\* The versions of a secret that hold a stage label, in a store and in the current state
HoldersIn(db, arn, label) ==
    { st.version_id : st \in { x \in db.stages : x.secret_arn = arn /\ x.value = label } }

Holders(arn, label) == HoldersIn(DB, arn, label)

\* C1: every secret that exists has exactly one version holding AWSCURRENT.
C1_ExactlyOneCurrent ==
    \A s \in secrets : Cardinality(Holders(s.arn, AWSCURRENT)) = 1

\* C2: every secret has at most one version holding AWSPREVIOUS, and that
\* version does not hold AWSCURRENT.
C2_PreviousApartFromCurrent ==
    \A s \in secrets :
        /\ Cardinality(Holders(s.arn, AWSPREVIOUS)) <= 1
        /\ Holders(s.arn, AWSPREVIOUS) \cap Holders(s.arn, AWSCURRENT) = {}

StageLabelUnique ==
    \A st1 \in stages, st2 \in stages :
        st1.secret_arn = st2.secret_arn /\ st1.value = st2.value
            => st1.version_id = st2.version_id

\* C3: at most one version of a secret holds a given stage label, and an
\* UpdateSecretVersionStage that finds the label attached to another version
\* fails with InvalidRequestException and leaves the store as it was.
C3_StageLabelUnique ==
    [][ /\ StageLabelUnique'
        /\ resp'.op = "UpdateSecretVersionStage" /\ resp'.path = "already_attached"
            => resp'.err = InvalidRequestException /\ UNCHANGED store ]_vars

\* An UpdateSecretVersionStage was refused because the label is held by another
\* version, on a secret whose AWSPREVIOUS is not on the AWSCURRENT holder
C3_Witness ==
    /\ resp.op = "UpdateSecretVersionStage"
    /\ resp.path = "already_attached"
    /\ \E s \in secrets :
        /\ Holders(s.arn, AWSCURRENT) # {}
        /\ Holders(s.arn, AWSPREVIOUS) # {}
        /\ Holders(s.arn, AWSPREVIOUS) # Holders(s.arn, AWSCURRENT)

\* C8: a PutSecretValue with the default VersionStages that creates a version
\* leaves the new version the only holder of AWSCURRENT and the version that held
\* AWSCURRENT before the only holder of AWSPREVIOUS.
C8_DefaultPutRotates ==
    \A secret_id \in SecretIds, token \in Tokens, secret_string \in {"s1"} :
        LET before == get_secret_latest_version(DB, secret_id)
            r == PutSecretValueHandler(DB, secret_id, token, secret_string, Null, <<>>)
        IN  r.resp.path = "created" =>
                /\ before # NoRow
                /\ token # before.version_id
                /\ HoldersIn(r.db, before.arn, AWSCURRENT) = {token}
                /\ HoldersIn(r.db, before.arn, AWSPREVIOUS) = {before.version_id}
                /\ r.resp.version_id = token

\* A default PutSecretValue has rotated a secret of three versions: the newest
\* holds AWSCURRENT, the one before AWSPREVIOUS and the oldest no label
C8_Witness ==
    /\ resp.op = "PutSecretValue"
    /\ resp.path = "created"
    /\ resp.version_stages = {AWSCURRENT}
    /\ Holders(resp.arn, AWSCURRENT) = {resp.version_id}
    /\ \E v1 \in versions, v0 \in versions :
        /\ v1.secret_arn = resp.arn /\ v0.secret_arn = resp.arn
        /\ Holders(resp.arn, AWSPREVIOUS) = {v1.version_id}
        /\ VersionStages(DB, resp.arn, v0.version_id) = {}

----------------------------------------------------------------------------
(* Payloads and replays: C4, C5, C6, C7 *)

\* The secret rows a SecretId addresses
SecretsOf(secret_id) == { s \in secrets : MatchesId(s, secret_id) }

\* The version rows of a secret that a token names
VersionsOf(arn, version_id) ==
    { v \in versions : v.secret_arn = arn /\ v.version_id = version_id }

\* C4: every stored version carries exactly one of secret_string and
\* secret_binary; CreateSecret and PutSecretValue answer a request with both or
\* neither with InvalidRequestException and leave the store alone; UpdateSecret
\* does so for both, and inserts no version for neither.
C4_PayloadXor ==
    /\ \A v \in versions : (v.secret_string = Null) # (v.secret_binary = Null)
    /\ \A D \in {ReplayDomain} :
       \A ss \in D.strings, sb \in D.binaries, token \in D.tokens :
        LET both == ss # Null /\ sb # Null
            neither == ss = Null /\ sb = Null
        IN  /\ both \/ neither =>
                /\ \A name \in D.names, suffix \in D.suffixes, tagList \in D.tagLists :
                    LET r == CreateSecretHandler(DB, now, name, suffix, token, Null, ss, sb, tagList)
                    IN  r.resp.err = InvalidRequestException /\ r.db = DB
                /\ \A secret_id \in D.ids, stage_opt \in D.stageLists :
                    LET r == PutSecretValueHandler(DB, secret_id, token, ss, sb, stage_opt)
                    IN  r.resp.err = InvalidRequestException /\ r.db = DB
            /\ \A secret_id \in D.ids, description \in {Null, "d1"} :
                LET r == UpdateSecretHandler(DB, now, secret_id, token, description, ss, sb)
                IN  /\ both => r.resp.err = InvalidRequestException /\ r.db = DB
                    /\ neither => r.db.versions = versions

\* A request without a valid payload was refused while the store holds a version
\* with a string and a version with a binary
C4_Witness ==
    /\ resp.path = "payload_rejected"
    /\ \E v \in versions : v.secret_string # Null /\ v.secret_binary = Null
    /\ \E v \in versions : v.secret_string = Null /\ v.secret_binary # Null

\* C5: a CreateSecret with the name of a secret, a token that names one of its
\* versions and the payload of that version succeeds, returns the ARN of that
\* secret and the token, and leaves the store unchanged.
C5_CreateReplay ==
    \A D \in {ReplayDomain} :
    \A name \in D.names, suffix \in D.suffixes, token \in D.tokens,
       ss \in D.strings, sb \in D.binaries, tagList \in D.tagLists :
        \A s \in SecretsOf(name) : \A v \in VersionsOf(s.arn, token) :
            s.name = name /\ v.secret_string = ss /\ v.secret_binary = sb =>
                LET r == CreateSecretHandler(DB, now, name, suffix, token, Null, ss, sb, tagList)
                IN  /\ r.resp.err = Ok
                    /\ r.resp.arn = s.arn
                    /\ r.resp.version_id = token
                    /\ r.db = DB

\* A CreateSecret was answered as a replay of a version that is no longer the
\* only version of its secret
C5_Witness ==
    /\ resp.op = "CreateSecret"
    /\ resp.path = "replay"
    /\ resp.err = Ok
    /\ VersionsOf(resp.arn, resp.version_id) # {}
    /\ Cardinality({ v \in versions : v.secret_arn = resp.arn }) = 2
    /\ AWSCURRENT \notin VersionStages(DB, resp.arn, resp.version_id)

\* C6: a PutSecretValue with a token that names a version of the addressed secret
\* and the payload of that version succeeds, returns that version's id and its
\* attached stages, and leaves the store unchanged.
C6_PutReplay ==
    \A D \in {ReplayDomain} :
    \A secret_id \in D.ids, token \in D.tokens, ss \in D.strings, sb \in D.binaries,
       stage_opt \in D.stageLists :
        \A s \in SecretsOf(secret_id) : \A v \in VersionsOf(s.arn, token) :
            v.secret_string = ss /\ v.secret_binary = sb =>
                LET r == PutSecretValueHandler(DB, secret_id, token, ss, sb, stage_opt)
                IN  /\ r.resp.err = Ok
                    /\ r.resp.version_id = token
                    /\ r.resp.version_stages = VersionStages(DB, s.arn, token)
                    /\ r.db = DB

\* C7: a CreateSecret or PutSecretValue with a token that names a version of the
\* addressed secret and a payload other than the stored one fails with
\* ResourceExistsException and leaves the store unchanged; so does a
\* CreateSecret with the name of a secret and a token that names none of its
\* versions.
C7_TokenReuseRejected ==
    \A D \in {ReplayDomain} :
    \A token \in D.tokens, ss \in D.strings, sb \in D.binaries :
        (ss = Null) # (sb = Null) =>
            /\ \A name \in D.names, suffix \in D.suffixes, tagList \in D.tagLists :
                \A s \in SecretsOf(name) :
                    LET r == CreateSecretHandler(DB, now, name, suffix, token, Null, ss, sb, tagList)
                        same == { v \in VersionsOf(s.arn, token) :
                                    v.secret_string = ss /\ v.secret_binary = sb }
                    IN  s.name = name /\ same = {} =>
                            r.resp.err = ResourceExistsException /\ r.db = DB
            /\ \A secret_id \in D.ids, stage_opt \in D.stageLists :
                \A s \in SecretsOf(secret_id) : \A v \in VersionsOf(s.arn, token) :
                    LET r == PutSecretValueHandler(DB, secret_id, token, ss, sb, stage_opt)
                    IN  v.secret_string # ss \/ v.secret_binary # sb =>
                            r.resp.err = ResourceExistsException /\ r.db = DB

----------------------------------------------------------------------------
(* Deletion and restoration: C9, C10 *)

\* C9 as stated: every GetSecretValue on a secret scheduled for deletion, with
\* any version selector, fails with InvalidRequestException.
C9_EveryGetRejected ==
    \A D \in {LifeDomain} :
    \A secret_id \in D.ids, version_id \in D.tokens \cup {Null},
       version_stage \in D.stages \cup {Null} :
        (\E s \in SecretsOf(secret_id) : s.scheduled_delete_at # NoDate) =>
            GetSecretValueHandler(DB, now, secret_id, version_id, version_stage).resp.err
                = InvalidRequestException

\* C9, amended: a GetSecretValue whose selector names a version of a secret
\* scheduled for deletion fails with InvalidRequestException and changes
\* nothing; a scheduled DeleteSecret makes every selector that named a version
\* fail so, and a RestoreSecret after it makes each of them return the version,
\* payload and stages it named before the deletion.
C9_SelectedGetRejected ==
    \A D \in {LifeDomain} :
    \A secret_id \in D.ids, version_id \in D.tokens \cup {Null},
       version_stage \in D.stages \cup {Null} :
        LET before == GetSecretValueLookup(DB, secret_id, version_id, version_stage)
            get == GetSecretValueHandler(DB, now, secret_id, version_id, version_stage)
        IN  /\ before # NoRow /\ before.scheduled_delete_at # NoDate =>
                get.resp.err = InvalidRequestException /\ get.db = DB
            /\ before # NoRow /\ before.scheduled_delete_at = NoDate =>
                \A id \in D.ids, days \in D.windows :
                    LET deleted == DeleteSecretHandler(DB, now, id, FALSE, days)
                        refused == GetSecretValueHandler(deleted.db, now, secret_id,
                                                         version_id, version_stage)
                        restored == RestoreSecretHandler(deleted.db, id)
                        again == GetSecretValueHandler(restored.db, now, secret_id,
                                                       version_id, version_stage)
                    IN  deleted.resp.path = "scheduled" /\ deleted.resp.arn = before.arn =>
                            /\ refused.resp.err = InvalidRequestException
                            /\ restored.resp.err = Ok
                            /\ again.resp.err = Ok
                            /\ again.resp.version_id = before.version_id
                            /\ again.resp.secret_string = before.secret_string
                            /\ again.resp.secret_binary = before.secret_binary
                            /\ again.resp.version_stages = before.version_stages

\* A GetSecretValue was refused because its secret is scheduled for deletion
C9_Witness ==
    /\ resp.op = "GetSecretValue"
    /\ resp.path = "scheduled"
    /\ resp.err = InvalidRequestException
    /\ \E s \in secrets : s.arn = resp.arn /\ s.scheduled_delete_at # NoDate

\* The rows of the four tables that belong to an ARN
RowsOf(db, arn) ==
    { s \in db.secrets : s.arn = arn } \cup { v \in db.versions : v.secret_arn = arn }
        \cup { st \in db.stages : st.secret_arn = arn } \cup { t \in db.tags : t.secret_arn = arn }

\* C10: a DeleteSecret with ForceDeleteWithoutRecovery on a secret that is not
\* scheduled for deletion succeeds and leaves no secret, version, stage or tag
\* row of its ARN; GetSecretValue, DescribeSecret, PutSecretValue and
\* DeleteSecret addressing it then fail with ResourceNotFoundException; and no
\* version, stage or tag row is ever without its secret row.
C10_ForcedDeleteRemovesAll ==
    /\ \A row \in versions \cup stages \cup tags :
        \E s \in secrets : s.arn = row.secret_arn
    /\ \A D \in {LifeDomain} :
       \A secret_id \in D.ids, days \in D.windows :
        LET secret == get_secret_latest_version(DB, secret_id)
            r == DeleteSecretHandler(DB, now, secret_id, TRUE, days)
        IN  secret # NoRow /\ secret.scheduled_delete_at = NoDate =>
                /\ r.resp.err = Ok
                /\ RowsOf(r.db, secret.arn) = {}
                /\ \A id \in {secret.arn, secret.name} :
                    /\ \A version_id \in D.tokens \cup {Null}, version_stage \in D.stages \cup {Null} :
                        GetSecretValueHandler(r.db, now, id, version_id, version_stage).resp.err
                            = ResourceNotFoundException
                    /\ DescribeSecretHandler(r.db, id).resp.err = ResourceNotFoundException
                    /\ \A token \in D.tokens :
                        PutSecretValueHandler(r.db, id, token, "s1", Null, <<>>).resp.err
                            = ResourceNotFoundException
                    /\ \A force \in BOOLEAN :
                        DeleteSecretHandler(r.db, now, id, force, days).resp.err
                            = ResourceNotFoundException

\* A forced DeleteSecret has removed a secret and nothing of it is left
C10_Witness ==
    /\ resp.op = "DeleteSecret"
    /\ resp.path = "forced"
    /\ resp.err = Ok
    /\ RowsOf(DB, resp.arn) = {}

----------------------------------------------------------------------------
(* The gate and the router: C11, C12, C13, C14, C15 *)

\* The payloads the gate is probed with: one per kind of answer behind it
GateProbes ==
    { GateBasePayload, <<"secretsmanager.CreateSecret", "create">>,
      <<"secretsmanager.DeleteSecret", "delete_forced">>, <<"secretsmanager.Nope", "get">> }

\* The choices of a client that holds the configured credentials and varies
\* one part that the signature does not rest on
GateKeyHolders ==
    VaryPart(GateBase, "offset") \cup VaryPart(GateBase, "authorization")
        \cup VaryPart(GateBase, "http_date") \cup VaryPart(GateBase, "method")

\* What the service answers to the request a client builds from c and p
Answer(c, p) == App_call(DB, now, ClientRequest(c, p[1], p[2]), "Ab3dE9", "t1")

\* The request reached the router: the gate and post_service let it through
ReachedRouter(r) == r.resp.op \notin {"AwsSigV4AuthMiddleware", "post_service"}

\* A handler of the SecretEngine ran
ReachedHandler(r) == r.resp.op \in {"CreateSecret", "GetSecretValue", "DeleteSecret"}

\* The client wrote a date header the gate can read, and no unreadable one
DateResolves(c) ==
    /\ c.amz_date \in {"amz", "missing"}
    /\ c.http_date \in {"imf", "imf_later", "missing"}
    /\ c.amz_date = "amz" \/ c.http_date = "imf"

\* The request time is within the tolerance of the server clock
InWindow(c) ==
    /\ GateClock + c.offset - now <= ToleranceSeconds
    /\ now - (GateClock + c.offset) <= ToleranceSeconds

\* The client signed with the configured secret key and nothing changed after
SignedByOwner(c) == c.secret_access_key = credentials.secret_access_key /\ c.tamper = "none"

\* The Authorization header of the request is present and parses
HeaderParses(req) ==
    /\ "authorization" \in DOMAIN req.headers
    /\ req.headers["authorization"].str
    /\ parse_auth_header(req.headers["authorization"].v).ok

\* C11: a request reaches the router only if its Authorization header is present
\* and parses, its access key id is the configured one, its time is within 300
\* seconds of the server clock and it was signed with the configured secret key
\* and not altered; every request that does not reach it is answered with an
\* error by the gate, runs no handler and leaves the store unchanged.
C11_OnlyAuthenticatedReachRouter ==
    \A c \in GateChoices, p \in GateProbes :
        \A req \in {ClientRequest(c, p[1], p[2])}, r \in {Answer(c, p)} :
            /\ ReachedRouter(r) =>
                /\ HeaderParses(req)
                /\ c.access_key_id = credentials.access_key_id
                /\ DateResolves(c) /\ InWindow(c)
                /\ SignedByOwner(c)
            /\ ReachedHandler(r) => ReachedRouter(r)
            /\ ~ReachedRouter(r) =>
                /\ r.resp.err # Ok
                /\ STATUS_CODE(r.resp.err) >= 400
                /\ r.db = DB

\* A request went through the gate and its handler created a secret
C11_Witness ==
    /\ resp.op = "CreateSecret"
    /\ resp.path = "created"
    /\ \E s \in secrets : s.arn = resp.arn

\* C12: a request with a well-formed Authorization header and an in-window time
\* whose access key id is not the configured one is answered
\* InvalidClientTokenId with status 403, whatever it was signed with.
C12_UnknownKeyIdRejected ==
    \A c \in GateChoices, p \in GateProbes :
        \A r \in {Answer(c, p)} :
            /\ c.authorization = "signed"
            /\ DateResolves(c) /\ InWindow(c)
            /\ c.access_key_id # credentials.access_key_id
            =>  /\ r.resp.op = "AwsSigV4AuthMiddleware"
                /\ r.resp.err = InvalidClientTokenId
                /\ STATUS_CODE(r.resp.err) = 403
                /\ r.db = DB

\* The gate refused an access key id
C12_Witness ==
    /\ resp.op = "AwsSigV4AuthMiddleware"
    /\ resp.path = "access_key_id"
    /\ resp.err = InvalidClientTokenId

\* C13: a request with the configured access key id and an in-window time that
\* was signed with another secret key, or whose body changed after signing, is
\* answered SignatureDoesNotMatch with status 403 and is not forwarded.
C13_BadSignatureRejected ==
    \A c \in GateChoices, p \in GateProbes :
        \A r \in {Answer(c, p)} :
            /\ c.authorization = "signed"
            /\ DateResolves(c) /\ InWindow(c)
            /\ c.access_key_id = credentials.access_key_id
            /\ c.body_readable
            /\ ~SignedByOwner(c)
            =>  /\ r.resp.op = "AwsSigV4AuthMiddleware"
                /\ r.resp.err = SignatureDoesNotMatch
                /\ STATUS_CODE(r.resp.err) = 403
                /\ r.db = DB

\* The gate refused a signature while the store holds a secret
C13_Witness ==
    /\ resp.op = "AwsSigV4AuthMiddleware"
    /\ resp.path = "signature"
    /\ resp.err = SignatureDoesNotMatch
    /\ secrets # {}

\* C14: the gate accepts the time of a request exactly when the server clock and
\* the request time differ by at most 300 seconds, in either direction; a
\* refused time is answered InvalidRequestException.
C14_TimeWindow ==
    \A c \in GateChoices :
        \A r \in {Answer(c, GateBasePayload)} :
            c.authorization \notin {"missing", "notstr"} /\ DateResolves(c) =>
                /\ InWindow(c) => ~(r.resp.op = "AwsSigV4AuthMiddleware" /\ r.resp.path = "time")
                /\ ~InWindow(c) =>
                    /\ r.resp.op = "AwsSigV4AuthMiddleware"
                    /\ r.resp.path = "time"
                    /\ r.resp.err = InvalidRequestException

\* The gate refused a request time after the clock has advanced
C14_Witness ==
    /\ resp.op = "AwsSigV4AuthMiddleware"
    /\ resp.path = "time"
    /\ resp.err = InvalidRequestException
    /\ now = GateClock + 1

\* The bodies that do not decode to the request of a target, and the ones that
\* decode to a request with a field out of its range
BadShape ==
    ({"secretsmanager.CreateSecret"} \X (GateBodies \ {"create"}))
        \cup ({"secretsmanager.GetSecretValue", "secretsmanager.DeleteSecret"}
                \X {"create", "id_number", "not_json"})
BadField ==
    { <<"secretsmanager.GetSecretValue", "get_empty_stage">>,
      <<"secretsmanager.DeleteSecret", "delete_in_5">> }

\* C15: of the requests that reach the router, one without X-Amz-Target is
\* answered InvalidRequestException, one whose target has no handler
\* NotImplemented, one whose body does not decode InvalidRequestException, one
\* with a field out of range InvalidParameterException; a handler runs only for
\* a request that decoded and validated.
C15_RouterDispatch ==
    \A c \in GateKeyHolders, p \in GatePayloads :
        \A r \in {Answer(c, p)} :
        LET route == r.resp.op = "HandlerRouterService"
            base == r.resp.op = "HandlerBase"
        IN  ReachedRouter(r) =>
                /\ p[1] = "missing" <=> (route /\ r.resp.path = "target")
                /\ route /\ r.resp.path = "target" => r.resp.err = InvalidRequestException
                /\ p[1] = "secretsmanager.Nope" <=> (r.resp.err = NotImplemented)
                /\ p \in BadShape <=> (base /\ r.resp.path = "decode")
                /\ base /\ r.resp.path = "decode" => r.resp.err = InvalidRequestException
                /\ p \in BadField <=> (r.resp.err = InvalidParameterException)
                /\ ReachedHandler(r) <=>
                    /\ p[1] \in create_handlers
                    /\ p \notin BadShape \cup BadField
                /\ ~ReachedHandler(r) => r.db = DB

\* The router refused a request whose field is out of range
C15_Witness ==
    /\ resp.op = "HandlerBase"
    /\ resp.path = "validate"
    /\ resp.err = InvalidParameterException

----------------------------------------------------------------------------
(* Stage moves: C16, C17 *)

\* C16: on an existing secret, an UpdateSecretVersionStage whose
\* RemoveFromVersionId names a version that does not hold VersionStage, or whose
\* MoveToVersionId is given while another version still holds VersionStage,
\* fails with InvalidRequestException and leaves every stage row as it was, the
\* AWSPREVIOUS rows included.
C16_RejectedMoveChangesNothing ==
    \A D \in {StageDomain} :
    \A secret_id \in D.ids, version_stage \in D.stages,
       move_to \in D.tokens \cup {Null}, remove_from \in D.tokens \cup {Null} :
        \A secret \in SecretsOf(secret_id) :
        \A r \in {UpdateSecretVersionStageHandler(DB, secret_id, version_stage, move_to, remove_from)} :
            LET held == HoldersIn(DB, secret.arn, version_stage)
                not_attached == remove_from # Null /\ remove_from \notin held
                still_held == /\ move_to # Null
                              /\ remove_from # Null => remove_from \in held
                              /\ held \ {move_to, remove_from} # {}
            IN  not_attached \/ still_held =>
                    /\ r.resp.err = InvalidRequestException
                    /\ r.db = DB

\* C17: where V2 holds AWSCURRENT and V1 holds AWSPREVIOUS, an
\* UpdateSecretVersionStage of AWSCURRENT with MoveToVersionId V1 and
\* RemoveFromVersionId V2 succeeds and leaves V1 the only holder of AWSCURRENT
\* and V2 the only holder of AWSPREVIOUS.
C17_MoveCurrentBack ==
    \A D \in {StageDomain} :
    \A secret_id \in D.ids, V1 \in D.tokens, V2 \in D.tokens :
        \A secret \in {get_secret_latest_version(DB, secret_id)} :
            /\ secret # NoRow
            /\ V1 # V2
            /\ HoldersIn(DB, secret.arn, AWSCURRENT) = {V2}
            /\ HoldersIn(DB, secret.arn, AWSPREVIOUS) = {V1}
            =>  \A r \in {UpdateSecretVersionStageHandler(DB, secret_id, AWSCURRENT, V1, V2)} :
                    /\ r.resp.err = Ok
                    /\ HoldersIn(r.db, secret.arn, AWSCURRENT) = {V1}
                    /\ HoldersIn(r.db, secret.arn, AWSPREVIOUS) = {V2}
                    /\ r.db.versions = versions

\* AWSCURRENT was moved and the two labels sit on two versions of a secret that
\* has a third, unlabelled one
C17_Witness ==
    /\ resp.op = "UpdateSecretVersionStage"
    /\ resp.path = "moved"
    /\ resp.err = Ok
    /\ \E v1, v2 \in versions :
        /\ v1.secret_arn = resp.arn /\ v2.secret_arn = resp.arn
        /\ v1.version_id # v2.version_id
        /\ VersionStages(DB, resp.arn, v1.version_id) = {AWSCURRENT}
        /\ VersionStages(DB, resp.arn, v2.version_id) = {AWSPREVIOUS}

----------------------------------------------------------------------------
(* Reads: C18 *)

\* The stage labels a version row holds
Holds(v) == { st.value : st \in { x \in stages : x.secret_arn = v.secret_arn /\ x.version_id = v.version_id } }

\* The versions of the secret named by secret_id that a GetSecretValue with the
\* given selectors asks for, read from the version and stage rows
Selected(secret_id, version_id, version_stage) ==
    { v \in versions :
        /\ \E s \in secrets : MatchesId(s, secret_id) /\ s.arn = v.secret_arn
        /\ version_id # Null => v.version_id = version_id
        /\ version_stage # Null => version_stage \in Holds(v)
        /\ version_id = Null /\ version_stage = Null => AWSCURRENT \in Holds(v) }

\* C18: GetSecretValue answers with the version that has the given id and holds
\* the given stage when both are given, the version with the id when only the id
\* is given, the holder of the stage when only the stage is given, and the
\* holder of AWSCURRENT when neither is given, whatever other versions the
\* secret has; when no version matches it answers ResourceNotFoundException.
C18_GetPrecedence ==
    \A D \in {LifeDomain} :
    \A secret_id \in D.ids, version_id \in D.tokens \cup {Null},
       version_stage \in D.stages \cup {Null} :
        \A sel \in {Selected(secret_id, version_id, version_stage)} :
        \A r \in {GetSecretValueHandler(DB, now, secret_id, version_id, version_stage)} :
            /\ Cardinality(sel) <= 1
            /\ sel = {} => r.resp.err = ResourceNotFoundException /\ r.db = DB
            /\ \A v \in sel :
                IF \E s \in secrets : s.arn = v.secret_arn /\ s.scheduled_delete_at # NoDate
                THEN r.resp.err = InvalidRequestException
                ELSE /\ r.resp.err = Ok
                     /\ r.resp.arn = v.secret_arn
                     /\ r.resp.version_id = v.version_id
                     /\ r.resp.secret_string = v.secret_string
                     /\ r.resp.secret_binary = v.secret_binary
                     /\ r.resp.version_stages = Holds(v)

\* A GetSecretValue returned the AWSCURRENT holder of a secret that has another
\* version, one that holds AWSPREVIOUS
C18_Witness ==
    /\ resp.op = "GetSecretValue"
    /\ resp.path = "value"
    /\ AWSCURRENT \in resp.version_stages
    /\ \E v \in versions :
        /\ v.secret_arn = resp.arn
        /\ v.version_id # resp.version_id
        /\ Holds(v) = {AWSPREVIOUS}

----------------------------------------------------------------------------
(* Scheduled secrets and batches: C19, C20 *)

\* The arns of the entries of a ListSecrets response
ListedArns(response) == { response.secret_list[i].arn : i \in 1..Len(response.secret_list) }

\* C19: a secret scheduled for deletion is returned by DescribeSecret with its
\* arn, its deletion date and the stages of each of its versions; it is in the
\* result of a ListSecrets without filters exactly when IncludePlannedDeletion
\* is true; and a GetSecretValue that selects one of its versions is answered
\* InvalidRequestException.
C19_ScheduledStillVisible ==
    \A D \in {ListDomain} :
    \A s \in { x \in secrets : x.scheduled_delete_at # NoDate } :
        /\ \A secret_id \in {s.name, s.arn} :
            \A d \in {DescribeSecretHandler(DB, secret_id)} :
                /\ d.resp.err = Ok
                /\ d.resp.arn = s.arn
                /\ d.resp.deletion_date = s.scheduled_delete_at
                /\ d.resp.version_ids_to_stages =
                        { <<v.version_id, Holds(v)>> : v \in { x \in versions : x.secret_arn = s.arn } }
                /\ d.db = DB
        /\ \A include_planned_deletion \in BOOLEAN, sort_order \in {"asc", "desc"},
              created_order \in D.createdOrders :
            \A l \in {ListSecretsHandler(DB, <<>>, include_planned_deletion,
                                         list_default_max_results, list_default_next_token,
                                         sort_order, created_order)} :
                /\ l.resp.err = Ok
                /\ s.arn \in ListedArns(l.resp) <=> include_planned_deletion
        /\ \A secret_id \in {s.name, s.arn}, version_id \in D.tokens \cup {Null},
              version_stage \in D.stages \cup {Null} :
            Selected(secret_id, version_id, version_stage) # {} =>
                \A g \in {GetSecretValueHandler(DB, now, secret_id, version_id, version_stage)} :
                    g.resp.err = InvalidRequestException /\ g.db = DB

\* The positions of a sequence of ids that name the secret, and the entries
\* of a response that are about it
PositionsOf(ids, s) == { i \in 1..Len(ids) : MatchesId(s, ids[i]) }
ValuesOf(response, s) == { i \in 1..Len(response.secret_values) : response.secret_values[i].arn = s.arn }
ErrorsOf(response, s) == { i \in 1..Len(response.errors) : MatchesId(s, response.errors[i].secret_id) }

\* C20: BatchGetSecretValue answers InvalidRequestException when both or
\* neither of Filters and SecretIdList are given.  With SecretIdList alone it
\* succeeds with as many entries as ids: an id that names no secret has its
\* ResourceNotFoundException entries in Errors, one for each time it is listed,
\* and each secret has one entry, a value or an error, for each id that names it.
C20_BatchEntries ==
    \A D \in {ListDomain} :
    \A filters \in {None} \cup { Some(f) : f \in D.filterLists },
       secret_id_list \in {None} \cup { Some(l) : l \in D.idLists },
       created_order \in D.createdOrders :
        \A r \in {BatchGetSecretValueHandler(DB, now, filters, secret_id_list, None, None,
                                             created_order)} :
            /\ (filters = None) = (secret_id_list = None) =>
                    r.resp.err = InvalidRequestException /\ r.db = DB
            /\ filters = None /\ secret_id_list # None =>
                \A ids \in {secret_id_list[1]} :
                    /\ r.resp.err = Ok
                    /\ Len(r.resp.secret_values) + Len(r.resp.errors) = Len(ids)
                    /\ \A x \in { y \in Range(ids) : SecretsOf(y) = {} } :
                        /\ Cardinality({ j \in 1..Len(r.resp.errors) : r.resp.errors[j].secret_id = x })
                                = Cardinality({ i \in 1..Len(ids) : ids[i] = x })
                        /\ \A j \in 1..Len(r.resp.errors) :
                            r.resp.errors[j].secret_id = x =>
                                r.resp.errors[j].error_code = ResourceNotFoundException
                    /\ \A s \in secrets :
                        Cardinality(ValuesOf(r.resp, s)) + Cardinality(ErrorsOf(r.resp, s))
                            = Cardinality(PositionsOf(ids, s))
                    /\ \A j \in 1..Len(r.resp.secret_values) :
                        \E v \in versions :
                            /\ v.secret_arn = r.resp.secret_values[j].arn
                            /\ v.version_id = r.resp.secret_values[j].version_id
                            /\ v.secret_string = r.resp.secret_values[j].secret_string
                            /\ AWSCURRENT \in Holds(v)
                    /\ r.db.secrets = secrets /\ r.db.stages = stages

\* A batch of two ids answered with the value of one and an error for the other
C20_Witness ==
    /\ resp.op = "BatchGetSecretValue"
    /\ resp.path = "listed"
    /\ resp.err = Ok
    /\ Len(resp.secret_values) = 1
    /\ Len(resp.errors) = 1
    /\ resp.errors[1].error_code = ResourceNotFoundException
    /\ SecretsOf(resp.errors[1].secret_id) = {}

----------------------------------------------------------------------------
(* The decisions of the gate: C25, C26, C27, C28, C29 *)

\* What the gate decides for the request a client builds from c and p
GateDecision(c, p) == AwsSigV4AuthMiddleware_call(ClientRequest(c, p[1], p[2]), now)

\* The Authorization headers that lack a part or carry a wrong one
Malformed ==
    { "basic", "norest", "nopair", "nocredential", "nosignature", "shortscope", "badterminator" }

\* C25: the gate answers with the error of the first failing step in the order
\* Authorization header, its parsing, the access key id, the request time: no
\* Authorization header gives MissingAuthenticationToken whatever the date
\* headers are, a malformed Authorization header with a time outside the
\* window gives IncompleteSignature, and an unknown access key id with a time
\* outside the window gives InvalidClientTokenId.
C25_ChecksInOrder ==
    \A c \in GateChoices :
        \A g \in {GateDecision(c, GateBasePayload)} :
            /\ c.authorization = "missing" => g.err = MissingAuthenticationToken
            /\ c.authorization \in Malformed /\ DateResolves(c) /\ ~InWindow(c) =>
                    g.err = IncompleteSignature
            /\ /\ c.authorization = "signed"
               /\ c.access_key_id # credentials.access_key_id
               /\ DateResolves(c) /\ ~InWindow(c)
               => g.err = InvalidClientTokenId

\* The date headers of the request that the gate can read
ParseableDates(c) ==
    (IF c.amz_date = "amz" THEN {"x-amz-date"} ELSE {})
        \cup (IF c.http_date \in {"imf", "imf_later"} THEN {"date"} ELSE {})

\* The steps of the gate that resolve the request time
TimeResolution == {"amz_date", "http_date", "date_missing"}

\* C26: the gate takes the request time from X-Amz-Date when it is present and
\* from Date otherwise, and the resolution of the time rejects a request only
\* when it has no date header that parses; a request with one that parses and
\* one that does not is not rejected by this step.
C26_TimeResolution ==
    \A c \in GateChoices :
        \A g \in {GateDecision(c, GateBasePayload)} :
            c.authorization \notin {"missing", "notstr"} =>
                /\ g.path \in TimeResolution =>
                    /\ g.err = InvalidRequestException
                    /\ ParseableDates(c) = {}
                /\ ParseableDates(c) # {} => g.path \notin TimeResolution
                \* X-Amz-Date decides when both parse, Date when it is alone
                /\ c.amz_date = "amz" /\ c.http_date = "imf_later" =>
                    (g.path = "time" <=> ~InWindow(c))
                /\ c.amz_date = "missing" /\ c.http_date = "imf_later" => g.path = "time"
                /\ c.amz_date = "missing" /\ c.http_date = "imf" =>
                    (g.path = "time" <=> ~InWindow(c))

\* C27: the gate finds the Authorization header well-formed exactly when its
\* algorithm is AWS4-HMAC-SHA256, it has Credential, SignedHeaders and
\* Signature, and its Credential has five parts, the fifth being aws4_request;
\* a Credential of four or six parts, or with another fifth part, is answered
\* IncompleteSignature.
C27_CredentialFiveParts ==
    \A c \in GateChoices :
        \A g \in {GateDecision(c, GateBasePayload)} :
            c.authorization \notin {"missing", "notstr"} /\ DateResolves(c) /\ InWindow(c) =>
                /\ c.authorization \in Malformed \cup {"longscope"} <=> g.err = IncompleteSignature
                /\ c.authorization \in {"shortscope", "longscope", "badterminator"} =>
                    g.path \in {"auth_header", "aws4_request"}

\* The store before any request
EmptyStore == [secrets |-> {}, versions |-> {}, stages |-> {}, tags |-> {}]

C29_UnsignedHeaderIgnored ==
    \A c \in GateChoices, v \in GateValues["extra"], p \in {GateBasePayload} :
        GateDecision([c EXCEPT !.extra = v], p) = GateDecision(c, p)

\* A request was answered by GetSecretValue where the gate lets a request
\* through whose x-extra is not text, and refuses one for its signature
C29_Witness ==
    /\ resp.op = "GetSecretValue"
    /\ resp.path = "value"
    /\ GateDecision([GateBase EXCEPT !.extra = "notstr"], GateBasePayload).forwarded
    /\ GateDecision([GateBase EXCEPT !.extra = "a", !.tamper = "body"], GateBasePayload).path = "signature"

----------------------------------------------------------------------------
(* A second DeleteSecret: C30 *)

\* C30: a DeleteSecret on a secret that is scheduled for deletion succeeds,
\* returns the scheduled_delete_at that is stored and changes nothing, whatever
\* its RecoveryWindowInDays and ForceDeleteWithoutRecovery.
C30_SecondDeleteChangesNothing ==
    \A D \in {LifeDomain} :
    \A s \in secrets :
        s.scheduled_delete_at # NoDate =>
            \A secret_id \in {s.name, s.arn}, force \in D.forces, days \in D.windows :
            \A r \in {DeleteSecretHandler(DB, now, secret_id, force, days)} :
                /\ r.resp.err = Ok
                /\ r.resp.arn = s.arn
                /\ r.resp.deletion_date = s.scheduled_delete_at
                /\ r.db = DB

----------------------------------------------------------------------------
(* Random passwords: C24 *)

\* The classes a request includes, and the alphabet it leaves
IncludedClasses(opts) ==
    (IF opts.exclude_lowercase THEN {} ELSE {LOWERCASE})
        \cup (IF opts.exclude_uppercase THEN {} ELSE {UPPERCASE})
        \cup (IF opts.exclude_numbers THEN {} ELSE {NUMBERS})
        \cup (IF opts.exclude_punctuation THEN {} ELSE {PUNCTUATION})

Alphabet(opts) ==
    (UNION { Range(class) : class \in IncludedClasses(opts) }
        \cup (IF opts.include_space THEN {" "} ELSE {}))
        \ Range(opts.exclude_characters)

\* The GetRandomPassword calls that have been answered
Answered == { inflight[w] : w \in { x \in Workers : inflight[x].op = "GetRandomPassword"
                                                     /\ inflight[x].pc = "returned" } }

\* C24: a successful GetRandomPassword returns PasswordLength characters of
\* the included classes (and the space if included) less ExcludeCharacters;
\* with RequireEachIncludedType and a length of at least the number of
\* included classes it holds a character of every included class; an empty
\* alphabet, and in required mode a length below the number of included
\* classes or an included class emptied by ExcludeCharacters, is answered
\* InvalidRequestException.
C24_RandomPassword ==
    \A call \in Answered :
    \A opts \in {call.opts} :
        /\ resp.err = Ok =>
            /\ Len(resp.random_password) = opts.password_length
            /\ Range(resp.random_password) \subseteq Alphabet(opts)
        /\ resp.err = Ok /\ opts.require_each_included_type
                /\ opts.password_length >= Cardinality(IncludedClasses(opts)) =>
            \A class \in IncludedClasses(opts) :
                Range(resp.random_password) \cap Range(class) # {}
        /\ \/ Alphabet(opts) = {}
           \/ /\ opts.require_each_included_type
              /\ \/ opts.password_length < Cardinality(IncludedClasses(opts))
                 \/ \E class \in IncludedClasses(opts) :
                        Range(class) \subseteq Range(opts.exclude_characters)
           => resp.err = InvalidRequestException

\* A password of one character of each of two classes and a third character
\* was returned to a request that excludes characters
C24_Witness ==
    \E call \in Answered :
        /\ resp.err = Ok
        /\ call.opts.require_each_included_type
        /\ call.opts.exclude_characters # <<>>
        /\ Cardinality(IncludedClasses(call.opts)) = 2
        /\ Len(resp.random_password) = 3
        /\ \A class \in IncludedClasses(call.opts) :
            Range(resp.random_password) \cap Range(class) # {}

----------------------------------------------------------------------------
(* Pages and deprecated versions: C21, C22 *)

\* The versions of a secret, and those a listing selects
VersionIdsOf(db, arn) == { v.version_id : v \in { x \in db.versions : x.secret_arn = arn } }

ListedVersionIds(db, arn, include_deprecated) ==
    { v \in VersionIdsOf(db, arn) : include_deprecated \/ VersionStages(db, arn, v) # {} }

\* The pages one after the other
RECURSIVE Concat(_)
Concat(pages) == IF pages = <<>> THEN <<>> ELSE pages[1] \o Concat(Tail(pages))

NoDuplicates(seq) == \A i \in 1..Len(seq), j \in 1..Len(seq) : seq[i] = seq[j] => i = j

\* The requests a client makes that follows the next tokens of
\* ListSecretVersionIds with one page size, at most fuel of them
RECURSIVE VersionPagesFrom(_, _, _, _, _, _, _)
VersionPagesFrom(db, secret_id, include_deprecated, size, token, version_order, fuel) ==
    LET r == ListSecretVersionIdsHandler(db, secret_id, include_deprecated, size, token,
                                         version_order).resp
    IN  IF fuel = 0 THEN [pages |-> <<>>, ended |-> FALSE]
        ELSE IF r.next_token = None THEN [pages |-> << r.versions >>, ended |-> TRUE]
        ELSE LET rest == VersionPagesFrom(db, secret_id, include_deprecated, size,
                                          r.next_token[1], version_order, fuel - 1)
             IN  [pages |-> << r.versions >> \o rest.pages, ended |-> rest.ended]

\* The same for ListSecrets
RECURSIVE SecretPagesFrom(_, _, _, _, _, _)
SecretPagesFrom(db, size, token, sort_order, created_order, fuel) ==
    LET r == ListSecretsHandler(db, <<>>, FALSE, size, token, sort_order, created_order).resp
    IN  IF fuel = 0 THEN [pages |-> <<>>, ended |-> FALSE]
        ELSE IF r.next_token = None THEN [pages |-> << r.secret_list >>, ended |-> TRUE]
        ELSE LET rest == SecretPagesFrom(db, size, r.next_token[1], sort_order,
                                         created_order, fuel - 1)
             IN  [pages |-> << r.secret_list >> \o rest.pages, ended |-> rest.ended]

\* The next token of page index i of size s over n items
NextTokenOf(i, s, n) == IF (i + 1) * s < n THEN Some(PaginationToken(s, i + 1)) ELSE None

\* The requests it takes to read n items in pages of s
PagesNeeded(s, n) == IF n = 0 THEN 1 ELSE (n + s - 1) \div s

\* C21: a listing of page index i and page size s over n items returns the
\* next token of index i+1 exactly when (i+1)*s < n and none otherwise; a
\* client that follows the next tokens from index 0 with one page size ends
\* after finitely many requests, and its pages one after the other hold every
\* item once.
C21_Pagination ==
    \A D \in {PageDomain} :
    /\ \A s \in secrets, include_deprecated \in BOOLEAN, size \in D.maxResults,
          version_order \in D.versionOrders :
        \A n \in {Cardinality(ListedVersionIds(DB, s.arn, include_deprecated))} :
        /\ \A token \in D.nextTokens :
            \A r \in {ListSecretVersionIdsHandler(DB, s.name, include_deprecated, size,
                                                  token, version_order).resp} :
                /\ r.err = Ok
                /\ r.next_token = NextTokenOf(token.page_index, size, n)
        /\ \A walk \in {VersionPagesFrom(DB, s.name, include_deprecated, size,
                                         version_ids_default_next_token, version_order,
                                         MaxRows + 1)} :
            \A ids \in {[ i \in 1..Len(Concat(walk.pages)) |-> Concat(walk.pages)[i].version_id ]} :
                /\ walk.ended
                /\ Len(walk.pages) = PagesNeeded(size, n)
                /\ Len(ids) = n
                /\ NoDuplicates(ids)
                /\ Range(ids) = ListedVersionIds(DB, s.arn, include_deprecated)
                /\ ids = VersionRows(DB, s.arn, include_deprecated, version_order)
    /\ \A size \in D.maxResults, sort_order \in {"asc", "desc"},
          created_order \in D.createdOrders :
        \A n \in {Cardinality(secrets)} :
        /\ \A token \in D.nextTokens :
            \A r \in {ListSecretsHandler(DB, <<>>, FALSE, size, token, sort_order,
                                         created_order).resp} :
                /\ r.err = Ok
                /\ r.next_token = NextTokenOf(token.page_index, size, n)
        /\ \A walk \in {SecretPagesFrom(DB, size, list_default_next_token, sort_order,
                                        created_order, MaxRows + 1)} :
            \A arns \in {[ i \in 1..Len(Concat(walk.pages)) |-> Concat(walk.pages)[i].arn ]} :
                /\ walk.ended
                /\ Len(walk.pages) = PagesNeeded(size, n)
                /\ Len(arns) = n
                /\ NoDuplicates(arns)
                /\ Range(arns) = { x.arn : x \in secrets }

\* The second page of one of at least three versions was returned with the
\* token of the third
C21_Witness ==
    /\ resp.op = "ListSecretVersionIds"
    /\ resp.err = Ok
    /\ Len(resp.versions) = 1
    /\ resp.next_token = Some(PaginationToken(1, 2))
    /\ Cardinality(VersionIdsOf(DB, resp.arn)) >= 3

\* The store after the step
DBNext == [secrets |-> secrets', versions |-> versions', stages |-> stages', tags |-> tags']

\* ListSecretVersionIds without IncludeDeprecated returns the versions that
\* hold a label, with IncludeDeprecated all of them, each with its labels
C22_ListsByLabels ==
    \A s \in secrets, include_deprecated \in BOOLEAN :
    \A version_order \in Orders(VersionIdsOf(DB, s.arn)) :
        \A r \in {ListSecretVersionIdsHandler(DB, s.arn, include_deprecated,
                    version_ids_default_max_results, version_ids_default_next_token,
                    version_order).resp} :
            /\ r.err = Ok
            /\ NoDuplicates(r.versions)
            /\ Range(r.versions) =
                { SecretVersionsListEntry(DB, s.arn, v) :
                    v \in { x \in VersionIdsOf(DB, s.arn) :
                            include_deprecated \/ VersionStages(DB, s.arn, x) # {} } }

\* A default PutSecretValue that stores a version leaves AWSCURRENT on it,
\* AWSPREVIOUS on the version that was current, and no label anywhere else
C22_Rotation ==
    resp'.op = "PutSecretValue" /\ versions' # versions =>
        \A s \in secrets :
            s.arn = resp'.arn =>
                /\ VersionIdsOf(DBNext, s.arn) = VersionIdsOf(DB, s.arn) \cup {resp'.version_id}
                /\ resp'.version_id \notin VersionIdsOf(DB, s.arn)
                /\ VersionStages(DBNext, s.arn, resp'.version_id) = {AWSCURRENT}
                /\ \A v \in Holders(s.arn, AWSCURRENT) :
                    VersionStages(DBNext, s.arn, v) = {AWSPREVIOUS}
                /\ \A v \in VersionIdsOf(DB, s.arn) \ Holders(s.arn, AWSCURRENT) :
                    VersionStages(DBNext, s.arn, v) = {}

\* C22: a version with no stage label is deprecated: each default
\* PutSecretValue rotation leaves labels only on the newest version
\* (AWSCURRENT) and the one before it (AWSPREVIOUS), so after three none of
\* the older versions holds one; ListSecretVersionIds with IncludeDeprecated
\* false returns exactly the versions that hold a label, and with
\* IncludeDeprecated true all versions.
C22_DeprecatedVersions == [] C22_ListsByLabels /\ [][C22_Rotation]_vars

\* After three rotations the listing without IncludeDeprecated returned the
\* two labelled versions of four
C22_Witness ==
    /\ resp.op = "ListSecretVersionIds"
    /\ resp.err = Ok
    /\ Cardinality(VersionIdsOf(DB, resp.arn)) = MaxRotations + 1
    /\ resp.next_token = None
    /\ { e.version_stages : e \in Range(resp.versions) } = { {AWSCURRENT}, {AWSPREVIOUS} }
    /\ Cardinality({ v \in VersionIdsOf(DB, resp.arn) : VersionStages(DB, resp.arn, v) = {} })
            = MaxRotations - 1

----------------------------------------------------------------------------
(* Concurrent writers: C23 *)

\* C23: whatever the interleaving of PutSecretValue, UpdateSecret and
\* UpdateSecretVersionStage calls that read the current version of a secret
\* before they open their transactions, after every commit the secret has
\* exactly one version holding AWSCURRENT and at most one holding AWSPREVIOUS,
\* which is not the one holding AWSCURRENT.
C23_ConcurrentWriters ==
    \A s \in secrets :
        \A current \in {Holders(s.arn, AWSCURRENT)}, previous \in {Holders(s.arn, AWSPREVIOUS)} :
            /\ Cardinality(current) = 1
            /\ Cardinality(previous) <= 1
            /\ current \cap previous = {}

----------------------------------------------------------------------------
(* The schedule of a deletion: C31 *)

\* A step changes scheduled_delete_at of a secret only when it serves a
\* DeleteSecret that sets it from null or a RestoreSecret that clears it
C31_Frame ==
    \A s \in secrets :
        \A t \in { x \in secrets' : x.arn = s.arn } :
            t.scheduled_delete_at # s.scheduled_delete_at =>
                \/ /\ resp'.op = "DeleteSecret"
                   /\ s.scheduled_delete_at = NoDate
                   /\ t.scheduled_delete_at # NoDate
                \/ /\ resp'.op = "RestoreSecret"
                   /\ t.scheduled_delete_at = NoDate

\* A RestoreSecret of a secret that is not scheduled succeeds and changes nothing
C31_RestoreOfUnscheduled ==
    \A s \in secrets :
        s.scheduled_delete_at = NoDate =>
            \A secret_id \in {s.name, s.arn} :
            \A r \in {RestoreSecretHandler(DB, secret_id)} :
                r.resp.err = Ok /\ r.db = DB

\* C31: scheduled_delete_at of a secret changes only through DeleteSecret,
\* which sets it when it was null, and RestoreSecret, which clears it and,
\* when it was null already, returns no error and changes nothing; every
\* other operation leaves it unchanged.
C31_ScheduleFrame == [] C31_RestoreOfUnscheduled /\ [][C31_Frame]_vars

----------------------------------------------------------------------------
(* UpdateSecret: C32, C33 *)

\* The descriptions and the payloads an UpdateSecret is probed with
ProbeDescriptions == {Null, "d1"}
ProbePayloads == { <<"s1", Null>>, <<"s2", Null>>, <<Null, "b1">> }

\* C32: from the same store, an UpdateSecret with a payload and token T
\* leaves the same versions and the same stage labels as a PutSecretValue with
\* that payload, token T and VersionStages [AWSCURRENT]; an UpdateSecret with
\* only a Description adds no version and moves no stage label.
C32_UpdateRotatesAsPut ==
    \A D \in {StageDomain} :
    \A secret_id \in D.names, description \in ProbeDescriptions :
        /\ \A token \in D.tokens, payload \in ProbePayloads :
            \A u \in {UpdateSecretHandler(DB, now, secret_id, token, description,
                                          payload[1], payload[2])} :
            \A p \in {PutSecretValueHandler(DB, secret_id, token, payload[1], payload[2],
                                            Some(<< AWSCURRENT >>))} :
                /\ u.db.versions = p.db.versions
                /\ u.db.stages = p.db.stages
        /\ \A token \in D.tokens \cup {Null} :
            \A u \in {UpdateSecretHandler(DB, now, secret_id, token, description, Null, Null)} :
                /\ u.db.versions = versions
                /\ u.db.stages = stages

\* An UpdateSecret has rotated a secret as the PutSecretValue of its token would
C32_Witness ==
    /\ resp.op = "UpdateSecret"
    /\ resp.path = "rotated"
    /\ Holders(resp.arn, AWSCURRENT) = {resp.version_id}
    /\ Holders(resp.arn, AWSPREVIOUS) # {}
    /\ Holders(resp.arn, AWSPREVIOUS) # {resp.version_id}

\* C33: an UpdateSecret whose ClientRequestToken is the id of a version the
\* secret already has succeeds with VersionId null and is a no-op: no version
\* is added, no stage label moves, and the description and updated_at of the
\* secret stay as they were, whatever the payload stored under the token.
C33_CollisionIsNoOp ==
    \A D \in {ReplayDomain} :
    \A s \in secrets :
    \A secret_id \in {s.name, s.arn}, token \in VersionIdsOf(DB, s.arn),
       description \in ProbeDescriptions, payload \in ProbePayloads :
        \A r \in {UpdateSecretHandler(DB, now, secret_id, token, description,
                                      payload[1], payload[2])} :
            /\ r.resp.err = Ok
            /\ r.resp.version_id = Null
            /\ r.db = DB

----------------------------------------------------------------------------
(* Concurrent rotations and duplicates: C34, C35 *)

\* A call's transaction ends in this step
Commits(w) == inflight[w] # NoCall /\ inflight'[w] = NoCall

\* The transaction of a rotation does not fail with InternalServiceError, and
\* when it stores a version it leaves AWSCURRENT on it and AWSPREVIOUS on the
\* version that held AWSCURRENT just before
C34_Step ==
    \A w \in Workers :
        Commits(w) /\ inflight[w].op \in {"PutSecretValue", "UpdateSecret"} =>
            /\ resp'.err # InternalServiceError
            /\ versions' # versions =>
                /\ HoldersIn(DBNext, resp'.arn, AWSCURRENT) = {resp'.version_id}
                /\ HoldersIn(DBNext, resp'.arn, AWSPREVIOUS) = Holders(resp'.arn, AWSCURRENT)

\* C34: rotations of one secret that run concurrently are serialized: each
\* one that succeeds acts on the state the one before it left, so AWSPREVIOUS
\* ends on the version that held AWSCURRENT immediately before the last
\* rotation, and none fails with InternalServiceError because of the other.
C34_RotationsSerialized == [][C34_Step]_vars

\* The CreateSecret requests tried against every state: either outcome of the
\* random suffix, two tokens, two payloads
DupCreates ==
    { <<name, suffix, token, secret_string>> :
        name \in Names, suffix \in MoreSuffixes, token \in {"t1", "t2"},
        secret_string \in {"s1", "s2"} }

\* CreateSecret where the name is free creates the one row of that name, with
\* one version that holds AWSCURRENT
C35_Winner ==
    \A c \in DupCreates :
        (~ \E s \in secrets : s.name = c[1]) =>
            \A r \in {CreateSecretHandler(DB, now, c[1], c[2], c[3], Null, c[4], Null, <<>>)} :
                /\ r.resp.err = Ok
                /\ Cardinality({ s \in r.db.secrets : s.name = c[1] }) = 1
                /\ VersionIdsOf(r.db, r.resp.arn) = {c[3]}
                /\ HoldersIn(r.db, r.resp.arn, AWSCURRENT) = {c[3]}

\* CreateSecret where the name is taken by a secret that has only its initial
\* version adds nothing: it is a replay when the token and the payload are
\* those of that version, and ResourceExistsException otherwise
C35_Loser ==
    \A c \in DupCreates, s \in secrets :
        s.name = c[1] /\ Cardinality(VersionIdsOf(DB, s.arn)) = 1 =>
            \A r \in {CreateSecretHandler(DB, now, c[1], c[2], c[3], Null, c[4], Null, <<>>)} :
                /\ r.db = DB
                /\ IF \E v \in versions : /\ v.secret_arn = s.arn /\ v.version_id = c[3]
                                          /\ v.secret_string = c[4] /\ v.secret_binary = Null
                   THEN r.resp.err = Ok /\ r.resp.arn = s.arn /\ r.resp.version_id = c[3]
                   ELSE r.resp.err = ResourceExistsException

\* One secret row for a name, one version row for a token of a secret
C35_OneRow ==
    /\ \A s1 \in secrets, s2 \in secrets : s1.name = s2.name => s1 = s2
    /\ \A v1 \in versions, v2 \in versions :
        v1.secret_arn = v2.secret_arn /\ v1.version_id = v2.version_id => v1 = v2

\* The transaction of a PutSecretValue whose token another call has used in
\* the meantime inserts nothing
C35_PutStep ==
    \A w \in Workers :
        /\ Commits(w) /\ inflight[w].op = "PutSecretValue"
        /\ inflight[w].version_id \in VersionIdsOf(DB, inflight[w].secret.arn)
        => /\ versions' = versions
           /\ stages' = stages
           /\ resp'.err \in {Ok, ResourceExistsException}

\* C35: duplicates create at most once.  Two CreateSecret calls for one name
\* leave one secret row with one initial version that holds AWSCURRENT, the
\* second call being a replay when its token and payload are the first's and
\* ResourceExistsException otherwise; two concurrent PutSecretValue calls with
\* one token create one version
C35_AtMostOnce ==
    [] (C35_Winner /\ C35_Loser /\ C35_OneRow) /\ [][C35_PutStep]_vars

\* A PutSecretValue has created the version while another call, which read the
\* secret before that, is about to insert the same token
C35_Witness ==
    /\ resp.op = "PutSecretValue" /\ resp.path = "created"
    /\ \E w \in Workers :
        /\ inflight[w].op = "PutSecretValue"
        /\ inflight[w].version_id = resp.version_id
        /\ inflight[w].secret.version_id # resp.version_id
        /\ resp.version_id \in VersionIdsOf(DB, inflight[w].secret.arn)

----------------------------------------------------------------------------
(* Errors and the transaction: C36 *)

\* What an action may have written and returned when its transaction ends:
\* here it has deleted a secret
C36_Helper ==
    \A s \in secrets, err \in {Ok, ResourceExistsException, InternalServiceError} :
        \A r \in {Result(delete_secret(DB, s.arn), Failure("action", "action", err))} :
            transaction(DB, r) = IF err = Ok THEN r ELSE Result(DB, r.resp)

\* C36: an operation that returns an error leaves the secrets, versions,
\* stages and tags as they were; the transaction helper commits what the
\* action wrote only when it returns Ok, and on Err rolls back and returns the
\* action's error as it is
C36_AtomicOnError ==
    [] C36_Helper /\ [][resp'.err # Ok => UNCHANGED store]_vars

\* An UpdateSecretVersionStage was refused inside its transaction, after it had
\* removed the label from the version named in RemoveFromVersionId
C36_Witness ==
    /\ resp.err = InvalidRequestException
    /\ resp.op = "UpdateSecretVersionStage" /\ resp.path = "already_attached"
    /\ secrets # {} /\ versions # {}

----------------------------------------------------------------------------
(* The version rows: C37 *)

\* The version as inserted: the secret, the id and the payload
Inserted(v) == <<v.secret_arn, v.version_id, v.secret_string, v.secret_binary>>

\* The operations that rotate or move stage labels
LabelOps == {"PutSecretValue", "UpdateSecret", "UpdateSecretVersionStage"}

C37_Step ==
    /\ \A v \in versions :
        \/ \E u \in versions' : Inserted(u) = Inserted(v)
        \/ /\ resp'.op = "DeleteSecret" /\ resp'.path = "forced"
           /\ resp'.arn = v.secret_arn
           /\ ~ \E s \in secrets' : s.arn = v.secret_arn
        \/ /\ resp'.op = "Reaper" /\ resp'.path = "deleted"
           /\ ~ \E s \in secrets' : s.arn = v.secret_arn
    /\ \A u1 \in versions', u2 \in versions' :
        u1.secret_arn = u2.secret_arn /\ u1.version_id = u2.version_id => u1 = u2
    /\ resp'.op \in LabelOps => versions \subseteq versions'

\* C37: a version row keeps its secret, its id and its payload for as long as
\* it exists, and goes only with its secret, in a forced DeleteSecret or in a
\* pass of the Reaper;
\* PutSecretValue, UpdateSecret and UpdateSecretVersionStage leave the rows
\* there are as they are and change labels only
C37_VersionsImmutable == [][C37_Step]_vars

\* A rotation has left the version that was current before it in place
C37_Witness ==
    /\ resp.op \in {"PutSecretValue", "UpdateSecret"} /\ resp.path \in {"created", "rotated"}
    /\ \E v \in versions :
        /\ v.secret_arn = resp.arn /\ v.version_id # resp.version_id
        /\ AWSCURRENT \notin VersionStages(DB, v.secret_arn, v.version_id)

----------------------------------------------------------------------------
(* The Reaper: C38 *)

\* The secrets a pass has to delete: scheduled, and the time has come
Due(s) == s.scheduled_delete_at # NoDate /\ s.scheduled_delete_at <= now

\* The rows of a table that belong to the secrets that are not due
Kept(rows) == { x \in rows : \E s \in secrets : s.arn = x.secret_arn /\ ~ Due(s) }

\* A pass removes the due secrets with their versions, stages and tags, and
\* nothing else (the step that answers as the Reaper at an unchanged clock)
C38_Pass ==
    resp'.op = "Reaper" /\ now' = now =>
        /\ secrets' = { s \in secrets : ~ Due(s) }
        /\ versions' = Kept(versions)
        /\ stages' = Kept(stages)
        /\ tags' = Kept(tags)

\* A second pass in the state the first one leaves removes nothing
C38_Idempotent ==
    \A db \in {perform_background_tasks(DB, now)} :
        perform_background_tasks(db, now) = db

\* C38: the Reaper removes the secrets whose scheduled_delete_at is set and not
\* after now, with their versions, stages and tags, and no other: not a secret
\* that was never scheduled, nor one whose time has not come, nor one restored
\* before the pass; two passes in one state do what one does
C38_ReaperDeletesDueOnly == [] C38_Idempotent /\ [][C38_Pass]_vars

\* A pass has deleted a secret and left another one, scheduled for later, with
\* its version
C38_Witness ==
    /\ resp.op = "Reaper" /\ resp.path = "deleted"
    /\ \E s \in secrets :
        /\ s.scheduled_delete_at # NoDate /\ s.scheduled_delete_at > now
        /\ VersionIdsOf(DB, s.arn) # {}

----------------------------------------------------------------------------
(* The stages PutSecretValue returns: C39 *)

\* C39: the VersionStages a PutSecretValue returns when it creates a version
\* are the labels the new version holds in the state it commits, whatever the
\* list asked for
C39_ReturnedStagesAttached ==
    \A secret_id \in SecretIds, token \in Tokens, stage_opt \in StageLists :
        \A r \in {PutSecretValueHandler(DB, secret_id, token, "s1", Null, stage_opt)} :
            r.resp.err = Ok /\ r.resp.path = "created" =>
                r.resp.version_stages = VersionStages(r.db, r.resp.arn, r.resp.version_id)

----------------------------------------------------------------------------
(* Reads of a secret scheduled for deletion: C40 *)

\* The secrets scheduled for deletion
Scheduled == { s \in secrets : s.scheduled_delete_at # NoDate }

\* The answer carries no value of a scheduled secret, and no access was stamped
KeepsScheduledSecret(r) ==
    /\ \A s \in Scheduled :
        { v \in r.db.versions : v.secret_arn = s.arn } = { v \in versions : v.secret_arn = s.arn }
    /\ \A i \in 1..Len(r.resp.secret_values) :
        ~ \E s \in Scheduled : r.resp.secret_values[i].arn = s.arn

\* GetSecretValue on a scheduled secret returns no payload and stamps nothing
C40_Get ==
    \A s \in Scheduled, by_arn \in BOOLEAN,
       version_id \in ListDomain.tokens \cup {Null},
       version_stage \in ListDomain.stages \cup {Null} :
        \A r \in {GetSecretValueHandler(DB, now, IF by_arn THEN s.arn ELSE s.name,
                                        version_id, version_stage)} :
            /\ r.resp.err # Ok
            /\ r.resp.secret_string = Null /\ r.resp.secret_binary = Null
            /\ r.db = DB

\* BatchGetSecretValue by Filters
C40_BatchByFilters ==
    \A filters \in ListDomain.filterLists, max_results \in {None, Some(1)},
       created_order \in ListDomain.createdOrders :
        KeepsScheduledSecret(BatchGetSecretValueHandler(DB, now, Some(filters), None,
                                                        max_results, None, created_order))

\* BatchGetSecretValue by SecretIdList
C40_BatchByIds ==
    \A secret_id_list \in ListDomain.idLists, created_order \in ListDomain.createdOrders :
        KeepsScheduledSecret(BatchGetSecretValueHandler(DB, now, None, Some(secret_id_list),
                                                        None, None, created_order))

\* C40: while a secret is scheduled for deletion, neither GetSecretValue nor
\* BatchGetSecretValue, by Filters or by SecretIdList, returns its payload or
\* stamps last_accessed_at
C40_NoReadOfScheduled == C40_Get /\ C40_BatchByFilters /\ C40_BatchByIds

====
